---- MODULE Spec2Model ----
(***************************************************************************)
(* strongarm: the Objective-C runtime metadata parser                      *)
(* (src/strongarm/macho/objc_runtime_data_parser.py).                      *)
(*                                                                         *)
(* The model follows ObjcRuntimeDataParser.__init__ step by step: the      *)
(* selref section, then one class-list entry, category or protocol per     *)
(* step, then the symbol map, then the read queries on the finished        *)
(* object.  The binary is read through the accessor as the parse goes:     *)
(* every struct the code reads is drawn from a bounded set of structs.     *)
(*                                                                         *)
(* The second part models the function analyzer                            *)
(* (src/strongarm/objc_analyzer.py): the backward data flow of             *)
(* determine_register_contents under SpecDataFlow, and call_targets and    *)
(* can_execute_call on a binary of three functions under SpecAnalyzer,     *)
(* and ObjcBlockAnalyzer (track_reg, find_block_load, get_block_arg) on    *)
(* short instruction lists under SpecBlock.                                *)
(*                                                                         *)
(* The third part models the load-command loop of MachoParser              *)
(* (src/strongarm/macho_parse.py) under SpecMacho.                         *)
(***************************************************************************)
EXTENDS Integers, Sequences, FiniteSets, TLC

VARIABLES
    pc,                 \* position inside __init__ ("selrefs" .. "done", or "failed")
    selref_pointers,    \* _parse_selrefs: addresses of the slots of __objc_selrefs
    selector_literal_pointers, \* _parse_selrefs: the pointers held in those slots
    selref_ptr_to_selector_map,         \* self._selref_ptr_to_selector_map (ordered dict)
    selector_literal_ptr_to_selref_map, \* self._selector_literal_ptr_to_selref_map
    parsed,             \* list local to _parse_class_and_category_info
    parsed_protocols,   \* list local to _parse_protocol_ptr_list (global protocols)
    classes,            \* self.classes
    protocols,          \* self.protocols
    sym_to_dylib_path,  \* self._sym_to_dylib_path
    ret,                \* the last query made on the finished parser and its result
    exception,          \* the exception __init__ raised, if it has
    cur,                \* locals of the current iteration of _parse_objc_classes
    items,              \* how many items of the binary have been read so far
    interpreter,        \* the major version of the Python running the analyzer
    functions,          \* the binary's code: function start address -> instructions
    __call_targets,     \* ObjcFunctionAnalyzer.__call_targets of the analyzer in use
    scanned,            \* how many times that analyzer has run next_branch
    outcome,            \* the last call made on that analyzer and how it ended
    block,              \* the fields of the ObjcBlockAnalyzer in use, once made
    macho               \* the MachoParser under construction, and the file it reads

vars == <<pc, selref_pointers, selector_literal_pointers,
          selref_ptr_to_selector_map, selector_literal_ptr_to_selref_map,
          parsed, parsed_protocols, classes, protocols, sym_to_dylib_path,
          ret, exception, cur, items,
          interpreter, functions, __call_targets, scanned, outcome, block, macho>>

\* The state of the function analyzer and of the Mach-O parser, which the
\* runtime data parser never touches.
analyzer_vars ==
    <<interpreter, functions, __call_targets, scanned, outcome, block, macho>>
\* The state of the parser, which the function analyzer never touches.
parser_vars == <<pc, selref_pointers, selector_literal_pointers,
                 selref_ptr_to_selector_map, selector_literal_ptr_to_selref_map,
                 parsed, parsed_protocols, classes, protocols,
                 sym_to_dylib_path, ret, exception, cur, items>>

----------------------------------------------------------------------------
(* Bounds of the binaries explored.                                        *)

\* The binary holds at most this many items in all (selref slots, class-list
\* entries, categories, protocols, method entries, ivars, undefined symbols).
MaxItems == 4
\* The selref section has at most this many slots.
MaxSelrefs == 2
\* A method list has at most this many entries.
MaxMethods == 2

Min(a, b) == IF a < b THEN a ELSE b

----------------------------------------------------------------------------
(* Python values.                                                          *)

\* None, where an address is expected (Optional[VirtualMemoryPointer]).
None == -1
\* The result of a string read that yields nothing usable: the code tests
\* every string it reads with `not s`, which None and '' both satisfy.
NoString == ""
\* None, where an ObjcSelref is expected.
NoSelref == [source_address |-> None, destination_address |-> None,
             selector_literal |-> NoString]
\* None, where an ObjcSelector is expected (the result of a query).
NoSelector == [name |-> NoString, selref |-> NoSelref, implementation |-> None,
               is_external_definition |-> TRUE, none |-> TRUE]

\* No exception.
NoError == "no error"

\* Python truth of an Optional[VirtualMemoryPointer]: None and 0 are false.
Truthy(implementation) == implementation # None /\ implementation # 0

\* Python truth of an Optional[str].
TruthyStr(s) == s # NoString

\* An ordered dict is a sequence of key/value pairs in insertion order.
dict_keys(d) == {d[i].k : i \in DOMAIN d}
dict_has(d, k) == \E i \in DOMAIN d : d[i].k = k
dict_get(d, k) == d[CHOOSE i \in DOMAIN d : d[i].k = k].v
dict_values(d) == [i \in DOMAIN d |-> d[i].v]
dict_del(d, k) == SelectSeq(d, LAMBDA e : e.k # k)
dict_set(d, k, v) ==
    IF dict_has(d, k)
    THEN [i \in DOMAIN d |-> IF d[i].k = k THEN [k |-> k, v |-> v] ELSE d[i]]
    ELSE Append(d, [k |-> k, v |-> v])

----------------------------------------------------------------------------
(* The binary, as the accessor presents it.                                *)

\* binary.get_virtual_base()
VirtualBase == 1
\* Addresses of strings in the binary; 0 is the null pointer.
NamePtrs == {1, 2, 3}
\* binary.get_full_string_from_start_address: two selector or entity names,
\* and one address where no usable string is read.
StringAt(p) == IF p = 1 THEN "a" ELSE IF p = 2 THEN "b" ELSE NoString
\* Raw implementation pointers of method entries: null, and two pointers
\* with flag bits set in the low 2 bits.
RawImps == {0, 6, 9}
\* Address of the i-th slot of __objc_selrefs.
SelrefSlot(i) == 10 + i

\* Name pointers of the entities of the binaries explored: class data is
\* named "a" and metaclass data "b", categories and protocols "a", and the
\* name of any of them may be unreadable.
DataNamePtrs == {1, 3}
MetaclassDataNamePtrs == {2, 3}
CategoryNamePtrs == {1, 3}
ProtocolNamePtrs == {1, 3}

ObjcMethodStruct == [name : NamePtrs, implementation : RawImps]

\* Method lists of at most k entries; the null method-list pointer and a
\* list whose methcount is 0 are both the empty list.
MethLists(k) == UNION {[1..n -> ObjcMethodStruct] : n \in 0..Min(k, MaxMethods)}

----------------------------------------------------------------------------
(* Entities.                                                               *)

ObjcSelref(source_address, destination_address, selector_literal) ==
    [source_address |-> source_address,
     destination_address |-> destination_address,
     selector_literal |-> selector_literal]

\* Fault variant of ObjcSelector: only None counts as "no implementation",
\* the null address does not.
ObjcSelector_is_none(name, selref, implementation) ==
    [name |-> name, selref |-> selref, implementation |-> implementation,
     is_external_definition |-> (implementation = None)]

ObjcSelector(name, selref, implementation) ==
    [name |-> name, selref |-> selref, implementation |-> implementation,
     is_external_definition |-> ~Truthy(implementation)]

----------------------------------------------------------------------------
(* Step 1: selrefs.                                                        *)

\* Fault variant of selrefs_pair: a pair is entered in both maps even when
\* its literal cannot be read.
selrefs_pair_unskipped(lit_map, sel_map, selref_ptr, selector_literal_ptr) ==
    LET selector_string == StringAt(selector_literal_ptr)
        wrapped_selref == ObjcSelref(selref_ptr, selector_literal_ptr, selector_string)
    IN  [lit_map |-> dict_set(lit_map, selector_literal_ptr, wrapped_selref),
         sel_map |-> dict_set(sel_map, selref_ptr,
                              ObjcSelector(selector_string, wrapped_selref, None))]

\* The body of the zip loop of _parse_selrefs for one pair: the two maps
\* after it.  A pair whose literal cannot be read is skipped.
selrefs_pair(lit_map, sel_map, selref_ptr, selector_literal_ptr) ==
    LET selector_string == StringAt(selector_literal_ptr)
        wrapped_selref == ObjcSelref(selref_ptr, selector_literal_ptr, selector_string)
    IN  IF ~TruthyStr(selector_string)
        THEN [lit_map |-> lit_map, sel_map |-> sel_map]
        ELSE [lit_map |-> dict_set(lit_map, selector_literal_ptr, wrapped_selref),
              sel_map |-> dict_set(sel_map, selref_ptr,
                                   ObjcSelector(selector_string, wrapped_selref, None))]

RECURSIVE selrefs_loop(_, _, _, _, _)
\* The zip loop of _parse_selrefs from pair i on; zip stops at the shorter list.
selrefs_loop(locs, ents, i, lit_map, sel_map) ==
    IF i > Min(Len(locs), Len(ents))
    THEN [lit_map |-> lit_map, sel_map |-> sel_map]
    ELSE LET r == selrefs_pair(lit_map, sel_map, locs[i], ents[i])
         IN  selrefs_loop(locs, ents, i + 1, r.lit_map, r.sel_map)

\* Fault variant of selrefs_invalid: the sanity check is missing.
selrefs_invalid_unchecked(locs, ents) == FALSE

\* The sanity check of _parse_selrefs: does it raise?
selrefs_invalid(locs, ents) == Len(locs) # Len(ents)

\* _parse_selrefs, called first by __init__.
ParseSelrefs ==
    /\ UNCHANGED analyzer_vars
    /\ pc = "selrefs"
    /\ \E n \in 0..MaxSelrefs, m \in 0..MaxSelrefs :
         \E ents \in [1..m -> NamePtrs] :
         \E locs \in {[i \in 1..n |-> SelrefSlot(i)]} :
         \E r \in {selrefs_loop(locs, ents, 1, <<>>, <<>>)} :
               /\ n <= MaxItems
               /\ selref_pointers' = locs
               /\ selector_literal_pointers' = ents
               /\ items' = n
               /\ IF selrefs_invalid(locs, ents)
                  THEN /\ pc' = "failed"
                       /\ exception' = "RuntimeError in _parse_selrefs"
                       /\ UNCHANGED <<selref_ptr_to_selector_map,
                                      selector_literal_ptr_to_selref_map>>
                  ELSE /\ pc' = "classes"
                       /\ exception' = NoError
                       /\ selref_ptr_to_selector_map' = r.sel_map
                       /\ selector_literal_ptr_to_selref_map' = r.lit_map
    /\ UNCHANGED <<parsed, parsed_protocols, classes, protocols,
                   sym_to_dylib_path, ret, cur>>

----------------------------------------------------------------------------
(* Method lists.                                                           *)

\* method_ent.implementation &= ~0x3
ClearLow2Bits(a) == a - (a % 4)

\* Fault variant of save_selector: the provisional entry is never replaced.
save_selector_stale(sel_map, selref, selector) == sel_map

\* read_selectors_from_methlist_ptr, "save this selector in the selref
\* pointer -> selector map": the map after one selector with a selref.
save_selector(sel_map, selref, selector) ==
    LET stale == /\ dict_has(sel_map, selref.source_address)
                 /\ ~Truthy(dict_get(sel_map, selref.source_address).implementation)
        m == IF stale THEN dict_del(sel_map, selref.source_address) ELSE sel_map
    IN  dict_set(m, selref.source_address, selector)

\* Fault variant of selref_for_name_ptr: the lookup ignores its key and
\* yields the first selref of the map.
selref_for_name_ptr_first(lit_map, name_ptr) ==
    IF lit_map # <<>> THEN lit_map[1].v ELSE NoSelref

\* self._selector_literal_ptr_to_selref_map.get(method_ent.name)
selref_for_name_ptr(lit_map, name_ptr) ==
    IF dict_has(lit_map, name_ptr) THEN dict_get(lit_map, name_ptr) ELSE NoSelref

\* The selector built from one method entry.
selector_of_method(lit_map, ent) ==
    ObjcSelector(StringAt(ent.name), selref_for_name_ptr(lit_map, ent.name),
                 ClearLow2Bits(ent.implementation))

\* What a parse step hands back when it raises: the exception (its type and
\* the function that raises it) and the selref map as the step leaves it.
Raised(sel_map, error) ==
    [raised |-> TRUE, error |-> error, value |-> <<>>, map |-> sel_map]

\* What a parse step hands back when it returns: the value returned and the
\* selref map as the step leaves it.
Returned(value, sel_map) ==
    [raised |-> FALSE, error |-> NoError, value |-> value, map |-> sel_map]

\* Fault variant of selector_saved: the selector is stored under the address
\* of its selector literal, not under the address of its selref.
selector_saved_at_literal(sel_map, selector) ==
    IF selector.selref # NoSelref
    THEN dict_set(sel_map, selector.selref.destination_address, selector)
    ELSE sel_map

\* read_selectors_from_methlist_ptr, "if selref:": the selref map after one
\* selector.
selector_saved(sel_map, selector) ==
    IF selector.selref # NoSelref
    THEN save_selector(sel_map, selector.selref, selector)
    ELSE sel_map

RECURSIVE methlist_loop(_, _, _, _, _)
\* The loop of read_selectors_from_methlist_ptr from entry i on.  The result
\* tells whether the loop raised, the selectors read and the selref map.
methlist_loop(methlist, i, selectors, sel_map, lit_map) ==
    IF i > Len(methlist)
    THEN Returned(selectors, sel_map)
    ELSE IF ~TruthyStr(StringAt(methlist[i].name))
    THEN Raised(sel_map, "ValueError in read_selectors_from_methlist_ptr")
    ELSE methlist_loop(methlist, i + 1,
             Append(selectors, selector_of_method(lit_map, methlist[i])),
             selector_saved(sel_map, selector_of_method(lit_map, methlist[i])),
             lit_map)

read_selectors_from_methlist_ptr(methlist, sel_map, lit_map) ==
    methlist_loop(methlist, 1, <<>>, sel_map, lit_map)

RECURSIVE methlists_loop(_, _, _, _, _)
RECURSIVE methlists_next(_, _, _, _, _)
\* selectors += self.read_selectors_from_methlist_ptr(p), for each method
\* list of lists in turn, from list i on; a null pointer is the empty list.
methlists_loop(lists, i, selectors, sel_map, lit_map) ==
    IF i > Len(lists)
    THEN Returned(selectors, sel_map)
    ELSE methlists_next(lists, i, selectors,
                        read_selectors_from_methlist_ptr(lists[i], sel_map, lit_map),
                        lit_map)
\* r is what the read of list i handed back.
methlists_next(lists, i, selectors, r, lit_map) ==
    IF r.raised THEN r
    ELSE methlists_loop(lists, i + 1, selectors \o r.value, r.map, lit_map)

----------------------------------------------------------------------------
(* Ivars.                                                                  *)

\* An ivar list has at most this many entries.
MaxIvars == 1

\* struct objc_ivar: name and type are string addresses; the offset is the
\* word read through offset_ptr.
ObjcIvarStruct == [name : NamePtrs, type : {3}, offset : {8}]

IvarLists(k) == UNION {[1..n -> ObjcIvarStruct] : n \in 0..Min(k, MaxIvars)}

ObjcIvar(name, class_name, offset) ==
    [name |-> name, class_name |-> class_name, field_offset |-> offset]

RECURSIVE ivarlist_loop(_, _, _)
ivarlist_loop(ivarlist, i, ivars) ==
    IF i > Len(ivarlist)
    THEN [raised |-> FALSE, error |-> NoError, value |-> ivars]
    ELSE IF ~TruthyStr(StringAt(ivarlist[i].name))
    THEN [raised |-> TRUE, value |-> <<>>,
          error |-> "ValueError in read_ivars_from_ivarlist_ptr"]
    ELSE ivarlist_loop(ivarlist, i + 1,
             Append(ivars, ObjcIvar(StringAt(ivarlist[i].name),
                                    StringAt(ivarlist[i].type), ivarlist[i].offset)))

read_ivars_from_ivarlist_ptr(ivarlist) == ivarlist_loop(ivarlist, 1, <<>>)

----------------------------------------------------------------------------
(* Classes, categories and protocols.                                      *)

\* ObjcClass.__init__; cls names the Python class of the object.
ObjcClass(cls, raw_struct, name, selectors, ivars, protos) ==
    [cls |-> cls, raw_struct |-> raw_struct, name |-> name,
     selectors |-> selectors, ivars |-> ivars, protocols |-> protos]

\* Fault variant of ObjcCategory: the name lacks the parentheses.
ObjcCategory_unparenthesised(raw_struct, base_class, category_name, selectors, protos) ==
    [cls |-> "ObjcCategory", raw_struct |-> raw_struct,
     name |-> base_class \o " " \o category_name,
     base_class |-> base_class, category_name |-> category_name,
     selectors |-> selectors, ivars |-> <<>>, protocols |-> protos]

\* ObjcCategory.__init__
ObjcCategory(raw_struct, base_class, category_name, selectors, protos) ==
    [cls |-> "ObjcCategory", raw_struct |-> raw_struct,
     name |-> base_class \o " (" \o category_name \o ")",
     base_class |-> base_class, category_name |-> category_name,
     selectors |-> selectors, ivars |-> <<>>, protocols |-> protos]

\* _parse_objc_protocol_entry, the return: r is what the reads of the four
\* method lists handed back.
protocol_entry_return(s, r) ==
    IF r.raised THEN r
    ELSE Returned(ObjcClass("ObjcProtocol", s, StringAt(s.name), r.value, <<>>, <<>>),
                  r.map)

_parse_objc_protocol_entry(s, sel_map, lit_map) ==
    IF ~TruthyStr(StringAt(s.name))
    THEN Raised(sel_map, "ValueError in _parse_objc_protocol_entry")
    ELSE protocol_entry_return(s,
             methlists_loop(<<s.required_instance_methods, s.required_class_methods,
                              s.optional_instance_methods, s.optional_class_methods>>,
                            1, <<>>, sel_map, lit_map))

RECURSIVE protocol_loop(_, _, _, _, _)
RECURSIVE protocol_next(_, _, _, _, _)
\* The loop of _parse_protocol_ptr_list from protocol i on.
protocol_loop(protocol_structs, i, protos, sel_map, lit_map) ==
    IF i > Len(protocol_structs)
    THEN Returned(protos, sel_map)
    ELSE protocol_next(protocol_structs, i, protos,
                       _parse_objc_protocol_entry(protocol_structs[i], sel_map, lit_map),
                       lit_map)
\* r is what the parse of protocol i handed back.
protocol_next(protocol_structs, i, protos, r, lit_map) ==
    IF r.raised THEN r
    ELSE protocol_loop(protocol_structs, i + 1, Append(protos, r.value), r.map, lit_map)

\* _parse_protocol_ptr_list, on the protocol structs its pointers lead to.
_parse_protocol_ptr_list(protocol_structs, sel_map, lit_map) ==
    protocol_loop(protocol_structs, 1, <<>>, sel_map, lit_map)

\* _parse_objc_category_entry, the return: r is what the parse of the
\* protocol list handed back.
category_entry_return(s, base_class, selectors, r) ==
    IF r.raised THEN r
    ELSE Returned(ObjcCategory(s, base_class, StringAt(s.name), selectors, r.value),
                  r.map)

\* _parse_objc_category_entry, from the protocol list on: r is what the
\* reads of the two method lists handed back.
category_entry_protocols(s, base_class, r, lit_map) ==
    IF r.raised THEN r
    ELSE category_entry_return(s, base_class, r.value,
             _parse_protocol_ptr_list(s.base_protocols, r.map, lit_map))

_parse_objc_category_entry(s, sel_map, lit_map) ==
    IF ~TruthyStr(StringAt(s.name))
    THEN Raised(sel_map, "ValueError in _parse_objc_category_entry")
    ELSE category_entry_protocols(s, "$_Unknown_Class",
             methlists_loop(<<s.instance_methods, s.class_methods>>,
                            1, <<>>, sel_map, lit_map),
             lit_map)

\* _parse_objc_data_entry, from the ivar list on: r is what the parse of the
\* protocol list handed back and r_ivars what the read of the ivar list did.
data_entry_return(objc_class_struct, objc_data_struct, selectors, r, r_ivars) ==
    IF r.raised THEN r
    ELSE IF r_ivars.raised THEN Raised(r.map, r_ivars.error)
    ELSE Returned(ObjcClass("ObjcClass", objc_class_struct,
                            StringAt(objc_data_struct.name), selectors,
                            r_ivars.value, r.value),
                  r.map)

\* _parse_objc_data_entry, from the protocol list on: r is what the read of
\* the method list handed back.
data_entry_protocols(objc_class_struct, objc_data_struct, r, lit_map) ==
    IF r.raised THEN r
    ELSE data_entry_return(objc_class_struct, objc_data_struct, r.value,
             _parse_protocol_ptr_list(objc_data_struct.base_protocols, r.map, lit_map),
             read_ivars_from_ivarlist_ptr(objc_data_struct.ivars))

_parse_objc_data_entry(objc_class_struct, objc_data_struct, sel_map, lit_map) ==
    IF ~TruthyStr(StringAt(objc_data_struct.name))
    THEN Raised(sel_map, "ValueError in _parse_objc_data_entry")
    ELSE data_entry_protocols(objc_class_struct, objc_data_struct,
             read_selectors_from_methlist_ptr(objc_data_struct.base_methods,
                                              sel_map, lit_map),
             lit_map)

\* _get_objc_data_from_objc_class: is the data struct a valid entry?
data_is_valid(data_entry) == ~(data_entry.name < VirtualBase)

\* Fault variant of merge_metaclass: the metaclass's selectors come first.
merge_metaclass_prepended(have_class, parsed_class, parsed_metaclass) ==
    IF have_class
    THEN [parsed_class EXCEPT !.selectors = parsed_metaclass.selectors \o @]
    ELSE parsed_metaclass

\* _parse_objc_classes: "add in selectors from the metaclass to the real
\* class", or "set the base class to the metaclass".
merge_metaclass(have_class, parsed_class, parsed_metaclass) ==
    IF have_class
    THEN [parsed_class EXCEPT !.selectors = @ \o parsed_metaclass.selectors]
    ELSE parsed_metaclass

\* Fault variant of classref_failed: the sanity check is missing, so an
\* entry with neither class nor metaclass is passed over.
classref_failed_skipped(have_class) == FALSE

\* _parse_objc_classes, "sanity check: ensure we either found a class or
\* metaclass": does the entry raise?
classref_failed(have_class) == ~have_class

\* What the first half keeps in parsed_class: r is what the parse of the
\* class data handed back.
class_data_parsed(r) ==
    IF r.raised THEN r ELSE Returned(<<r.value>>, r.map)

\* _parse_objc_classes, first half of one iteration: the class data of the
\* class struct the class-list pointer leads to.  value holds the parsed
\* class, if there is one.
parse_class_data(objc_class, sel_map, lit_map) ==
    IF data_is_valid(objc_class.data)
    THEN class_data_parsed(
             _parse_objc_data_entry(objc_class, objc_class.data, sel_map, lit_map))
    ELSE Returned(<<>>, sel_map)

\* The merge: r is what the parse of the metaclass data handed back.
metaclass_data_parsed(parsed_class, r) ==
    IF r.raised THEN r
    ELSE Returned(<<merge_metaclass(parsed_class # <<>>,
                                    IF parsed_class # <<>> THEN parsed_class[1]
                                    ELSE r.value,
                                    r.value)>>,
                  r.map)

\* _parse_objc_classes, second half of one iteration: the metaclass data,
\* the merge and the sanity check.  parsed_class is <<>> or holds the class
\* parsed from the class data; value holds the class to append.
parse_metaclass_data(objc_class, parsed_class, sel_map, lit_map) ==
    IF data_is_valid(objc_class.metaclass.data)
    THEN metaclass_data_parsed(parsed_class,
             _parse_objc_data_entry(objc_class, objc_class.metaclass.data,
                                    sel_map, lit_map))
    ELSE IF classref_failed(parsed_class # <<>>)
    THEN Raised(sel_map, "RuntimeError in _parse_objc_classes")
    ELSE Returned(parsed_class, sel_map)

----------------------------------------------------------------------------
(* The structs a bounded binary can hold.  The cost of a struct is the     *)
(* number of items it adds to the binary.                                  *)

\* A protocol list referenced from a class or a category names at most this
\* many protocols.
MaxProtocolRefs == 1

ProtocolSize(s) ==
    1 + Len(s.required_instance_methods) + Len(s.required_class_methods)
      + Len(s.optional_instance_methods) + Len(s.optional_class_methods)

RECURSIVE ProtocolListSize(_)
ProtocolListSize(l) ==
    IF l = <<>> THEN 0 ELSE ProtocolSize(Head(l)) + ProtocolListSize(Tail(l))

\* struct objc_protocol of cost at most k.
ObjcProtocolRawStruct(k) ==
    IF k < 1 THEN {}
    ELSE UNION { UNION { UNION {
           [name : ProtocolNamePtrs,
            required_instance_methods : {a}, required_class_methods : {b},
            optional_instance_methods : {c},
            optional_class_methods : MethLists(k - 1 - Len(a) - Len(b) - Len(c))]
           : c \in MethLists(k - 1 - Len(a) - Len(b)) }
           : b \in MethLists(k - 1 - Len(a)) }
           : a \in MethLists(k - 1) }

RECURSIVE ProtocolLists(_, _)
\* Lists of at most n protocol structs of total cost at most k; the null
\* protocol-list pointer is the empty list.
ProtocolLists(k, n) ==
    IF n = 0 \/ k < 1 THEN {<<>>}
    ELSE {<<>>} \cup
         UNION { {<<s>> \o rest : rest \in ProtocolLists(k - ProtocolSize(s), n - 1)}
                 : s \in ObjcProtocolRawStruct(k) }

\* A struct objc_data whose name lies below the virtual base: not a valid entry.
InvalidData == [name |-> 0, base_methods |-> <<>>, base_protocols |-> <<>>, ivars |-> <<>>]

DataSize(d) == Len(d.base_methods) + ProtocolListSize(d.base_protocols) + Len(d.ivars)

\* struct objc_data of cost at most k, valid (named by one of names) or not.
ObjcDataRawStruct(k, names) ==
    {InvalidData} \cup
    UNION { UNION {
      [name : names, base_methods : {m}, base_protocols : {pl},
       ivars : IvarLists(k - Len(m) - ProtocolListSize(pl))]
      : pl \in ProtocolLists(k - Len(m), MaxProtocolRefs) }
      : m \in MethLists(k) }

\* Values of the base_class pointer of a category struct.
ClassRefs == {0, 5}

CategorySize(s) ==
    1 + Len(s.instance_methods) + Len(s.class_methods) + ProtocolListSize(s.base_protocols)

\* struct objc_category of cost at most k.
ObjcCategoryRawStruct(k) ==
    IF k < 1 THEN {}
    ELSE UNION { UNION {
           [name : CategoryNamePtrs, base_class : ClassRefs,
            instance_methods : {a}, class_methods : {b},
            base_protocols : ProtocolLists(k - 1 - Len(a) - Len(b), MaxProtocolRefs)]
           : b \in MethLists(k - 1 - Len(a)) }
           : a \in MethLists(k - 1) }

----------------------------------------------------------------------------
(* Step 2: classes, categories and protocols.                              *)

\* The locals of _parse_objc_classes outside an iteration.
NoClass == [objc_class |-> [data |-> InvalidData, metaclass |-> [data |-> InvalidData]],
            parsed_class |-> <<>>]

\* One iteration of the loop of _parse_objc_classes, up to the class data.
ParseClassData ==
    /\ UNCHANGED analyzer_vars
    /\ pc = "classes"
    /\ items < MaxItems
    /\ \E base \in ObjcDataRawStruct(MaxItems - items - 1, DataNamePtrs) :
         \E meta \in ObjcDataRawStruct(MaxItems - items - 1 - DataSize(base),
                                        MetaclassDataNamePtrs) :
         \E objc_class \in {[data |-> base, metaclass |-> [data |-> meta]]} :
         \E r \in {parse_class_data(objc_class, selref_ptr_to_selector_map,
                                    selector_literal_ptr_to_selref_map)} :
               /\ items' = items + 1 + DataSize(base) + DataSize(meta)
               /\ selref_ptr_to_selector_map' = r.map
               /\ exception' = r.error
               /\ IF r.raised
                  THEN pc' = "failed" /\ UNCHANGED cur
                  ELSE pc' = "metaclass"
                       /\ cur' = [objc_class |-> objc_class, parsed_class |-> r.value]
    /\ UNCHANGED <<selref_pointers, selector_literal_pointers,
                   selector_literal_ptr_to_selref_map, parsed, parsed_protocols,
                   classes, protocols, sym_to_dylib_path, ret>>

\* The rest of the iteration: the metaclass data, the merge, the append.
ParseMetaclassData ==
    /\ UNCHANGED analyzer_vars
    /\ pc = "metaclass"
    /\ \E r \in {parse_metaclass_data(cur.objc_class, cur.parsed_class,
                                      selref_ptr_to_selector_map,
                                      selector_literal_ptr_to_selref_map)} :
           /\ selref_ptr_to_selector_map' = r.map
           /\ exception' = r.error
           /\ IF r.raised
              THEN pc' = "failed" /\ UNCHANGED <<parsed, cur>>
              ELSE pc' = "classes" /\ parsed' = parsed \o r.value
                   /\ cur' = NoClass
    /\ UNCHANGED <<selref_pointers, selector_literal_pointers,
                   selector_literal_ptr_to_selref_map, parsed_protocols,
                   classes, protocols, sym_to_dylib_path, ret, items>>

\* One iteration of the loop of _parse_objc_categories (the first one comes
\* when _parse_objc_classes has returned).
ParseCategory ==
    /\ UNCHANGED analyzer_vars
    /\ pc \in {"classes", "categories"}
    /\ \E s \in ObjcCategoryRawStruct(MaxItems - items) :
         \E r \in {_parse_objc_category_entry(s, selref_ptr_to_selector_map,
                                              selector_literal_ptr_to_selref_map)} :
             /\ items' = items + CategorySize(s)
             /\ selref_ptr_to_selector_map' = r.map
             /\ exception' = r.error
             /\ IF r.raised
                THEN pc' = "failed" /\ UNCHANGED parsed
                ELSE pc' = "categories" /\ parsed' = Append(parsed, r.value)
    /\ UNCHANGED <<selref_pointers, selector_literal_pointers,
                   selector_literal_ptr_to_selref_map, parsed_protocols, classes,
                   protocols, sym_to_dylib_path, ret, cur>>

\* One iteration of the loop of _parse_protocol_ptr_list, called by
\* _parse_global_protocol_info on the pointers of __objc_protolist (the
\* first one comes when _parse_class_and_category_info has returned and
\* self.classes is assigned).
ParseProtocol ==
    /\ UNCHANGED analyzer_vars
    /\ pc \in {"classes", "categories", "protocols"}
    /\ classes' = parsed
    /\ \E s \in ObjcProtocolRawStruct(MaxItems - items) :
         \E r \in {_parse_objc_protocol_entry(s, selref_ptr_to_selector_map,
                                              selector_literal_ptr_to_selref_map)} :
             /\ items' = items + ProtocolSize(s)
             /\ selref_ptr_to_selector_map' = r.map
             /\ exception' = r.error
             /\ IF r.raised
                THEN pc' = "failed" /\ UNCHANGED parsed_protocols
                ELSE pc' = "protocols"
                     /\ parsed_protocols' = Append(parsed_protocols, r.value)
    /\ UNCHANGED <<selref_pointers, selector_literal_pointers,
                   selector_literal_ptr_to_selref_map, parsed,
                   protocols, sym_to_dylib_path, ret, cur>>

----------------------------------------------------------------------------
(* Step 3: the symbol name to source dylib map.                            *)

\* The undefined-symbol part of the symbol table has at most this many entries.
MaxSymbols == 1

\* An undefined symbol: the address of its name and its n_desc field.
UndefinedSymbols == [name : NamePtrs, n_desc : {259}]

_library_ordinal_from_n_desc(n_desc) == (n_desc \div 256) % 256

\* binary.dylib_name_for_library_ordinal
DylibName(ordinal) == IF ordinal = 1 THEN "libobjc" ELSE "libSystem"

RECURSIVE symbols_loop(_, _, _)
symbols_loop(syms, i, syms_to_dylib_path) ==
    IF i > Len(syms) THEN syms_to_dylib_path
    ELSE LET sym == syms[i]
             symbol_name == StringAt(sym.name)
             library_ordinal == _library_ordinal_from_n_desc(sym.n_desc)
             source_name == DylibName(library_ordinal)
         IN  IF ~TruthyStr(symbol_name)
             THEN symbols_loop(syms, i + 1, syms_to_dylib_path)
             ELSE symbols_loop(syms, i + 1,
                               dict_set(syms_to_dylib_path, symbol_name, source_name))

\* _parse_linked_dylib_symbols, once the class, category and protocol lists
\* are exhausted and self.classes and self.protocols are assigned; __init__
\* returns after it.
ParseLinkedDylibSymbols ==
    /\ UNCHANGED analyzer_vars
    /\ pc \in {"classes", "categories", "protocols"}
    /\ classes' = parsed
    /\ protocols' = parsed_protocols
    /\ \E n \in 0..Min(MaxSymbols, MaxItems - items) :
         \E syms \in [1..n -> UndefinedSymbols] :
           /\ sym_to_dylib_path' = symbols_loop(syms, 1, <<>>)
           /\ items' = items + n
    /\ pc' = "done"
    /\ UNCHANGED <<selref_pointers, selector_literal_pointers,
                   selref_ptr_to_selector_map, selector_literal_ptr_to_selref_map,
                   parsed, parsed_protocols, ret, cur, exception>>

----------------------------------------------------------------------------
(* The read queries on the constructed parser.                             *)

\* The list comprehension of selector_for_selref: the known selrefs whose
\* source address is selref_addr, in dict order.
selrefs_at(lit_map, selref_addr) ==
    SelectSeq(dict_values(lit_map), LAMBDA x : x.source_address = selref_addr)

\* Fault variant of selector_for_selref: no fallback to the known selrefs.
selector_for_selref_no_fallback(sel_map, lit_map, selref_addr) ==
    IF dict_has(sel_map, selref_addr)
    THEN dict_get(sel_map, selref_addr)
    ELSE NoSelector

selector_for_selref(sel_map, lit_map, selref_addr) ==
    IF dict_has(sel_map, selref_addr)
    THEN dict_get(sel_map, selref_addr)
    ELSE LET selref == selrefs_at(lit_map, selref_addr)
         IN  IF Len(selref) = 0 THEN NoSelector
             ELSE ObjcSelector(selref[1].selector_literal, selref[1], None)

RECURSIVE imp_addresses_of(_, _, _)
\* The inner loop of get_method_imp_addresses over one class's selectors.
imp_addresses_of(selectors, selector, imp_addresses) ==
    IF selectors = <<>> THEN imp_addresses
    ELSE LET objc_sel == Head(selectors)
         IN  imp_addresses_of(Tail(selectors), selector,
                 IF objc_sel.name = selector /\ Truthy(objc_sel.implementation)
                 THEN Append(imp_addresses, objc_sel.implementation)
                 ELSE imp_addresses)

RECURSIVE imp_addresses_loop(_, _, _)
\* The outer loop of get_method_imp_addresses over self.classes.
imp_addresses_loop(cls, selector, imp_addresses) ==
    IF cls = <<>> THEN imp_addresses
    ELSE imp_addresses_loop(Tail(cls), selector,
                            imp_addresses_of(Head(cls).selectors, selector, imp_addresses))

\* Fault variant of get_method_imp_addresses: only the first address found.
get_method_imp_addresses_first(cls, selector) ==
    LET all == imp_addresses_loop(cls, selector, <<>>)
    IN  SubSeq(all, 1, Min(1, Len(all)))

get_method_imp_addresses(cls, selector) == imp_addresses_loop(cls, selector, <<>>)

\* Addresses and names the queries are made with: the slots of the selref
\* section (a slot past the end of a shorter section is no selref), and
\* the two selector names of the binary.
QueryAddrs == {SelrefSlot(i) : i \in 1..MaxSelrefs}
QueryNames == {"a", "b"}

\* Fault variant of selector_for_selref_map: the result of a lookup that
\* misses the selref map is stored in it.
selector_for_selref_map_cached(sel_map, lit_map, selref_addr) ==
    IF dict_has(sel_map, selref_addr) THEN sel_map
    ELSE dict_set(sel_map, selref_addr,
                  selector_for_selref(sel_map, lit_map, selref_addr))

\* self._selref_ptr_to_selector_map as selector_for_selref leaves it: the
\* function reads the map and assigns nothing to it.
selector_for_selref_map(sel_map, lit_map, selref_addr) == sel_map

QuerySelectorForSelref ==
    /\ UNCHANGED analyzer_vars
    /\ pc = "done"
    /\ \E a \in QueryAddrs :
         /\ ret' = [op |-> "selector_for_selref", arg |-> a,
                    value |-> selector_for_selref(selref_ptr_to_selector_map,
                                                  selector_literal_ptr_to_selref_map, a)]
         /\ selref_ptr_to_selector_map'
              = selector_for_selref_map(selref_ptr_to_selector_map,
                                        selector_literal_ptr_to_selref_map, a)
    /\ UNCHANGED <<pc, selref_pointers, selector_literal_pointers,
                   selector_literal_ptr_to_selref_map,
                   parsed, parsed_protocols, classes, protocols,
                   sym_to_dylib_path, items, cur, exception>>

QueryGetMethodImpAddresses ==
    /\ UNCHANGED analyzer_vars
    /\ pc = "done"
    /\ \E name \in QueryNames :
         ret' = [op |-> "get_method_imp_addresses", arg |-> name,
                 value |-> get_method_imp_addresses(classes, name)]
    /\ UNCHANGED <<pc, selref_pointers, selector_literal_pointers,
                   selref_ptr_to_selector_map, selector_literal_ptr_to_selref_map,
                   parsed, parsed_protocols, classes, protocols,
                   sym_to_dylib_path, items, cur, exception>>

\* The list comprehension of selref_for_selector_name: the keys of the
\* selref map whose selector bears the name, in dict order.
selrefs_named(sel_map, selector_name) ==
    LET named == SelectSeq(sel_map, LAMBDA e : e.v.name = selector_name)
    IN  [i \in DOMAIN named |-> named[i].k]

selref_for_selector_name(sel_map, selector_name) ==
    IF Len(selrefs_named(sel_map, selector_name)) # 0
    THEN selrefs_named(sel_map, selector_name)[1]
    ELSE None

\* path_for_external_symbol; None is the falsy string here.
path_for_external_symbol(syms_to_dylib_path, symbol) ==
    IF dict_has(syms_to_dylib_path, symbol)
    THEN dict_get(syms_to_dylib_path, symbol)
    ELSE NoString

\* Symbol names path_for_external_symbol is asked for: the two names the
\* symbol table can hold.
QuerySymbols == {"a", "b"}

QuerySelrefForSelectorName ==
    /\ UNCHANGED analyzer_vars
    /\ pc = "done"
    /\ \E name \in QueryNames :
         ret' = [op |-> "selref_for_selector_name", arg |-> name,
                 value |-> selref_for_selector_name(selref_ptr_to_selector_map, name)]
    /\ UNCHANGED <<pc, selref_pointers, selector_literal_pointers,
                   selref_ptr_to_selector_map, selector_literal_ptr_to_selref_map,
                   parsed, parsed_protocols, classes, protocols,
                   sym_to_dylib_path, items, cur, exception>>

QueryPathForExternalSymbol ==
    /\ UNCHANGED analyzer_vars
    /\ pc = "done"
    /\ \E symbol \in QuerySymbols :
         ret' = [op |-> "path_for_external_symbol", arg |-> symbol,
                 value |-> path_for_external_symbol(sym_to_dylib_path, symbol)]
    /\ UNCHANGED <<pc, selref_pointers, selector_literal_pointers,
                   selref_ptr_to_selector_map, selector_literal_ptr_to_selref_map,
                   parsed, parsed_protocols, classes, protocols,
                   sym_to_dylib_path, items, cur, exception>>

----------------------------------------------------------------------------
ParserInit ==
    /\ pc = "selrefs"
    /\ selref_pointers = <<>>
    /\ selector_literal_pointers = <<>>
    /\ selref_ptr_to_selector_map = <<>>
    /\ selector_literal_ptr_to_selref_map = <<>>
    /\ parsed = <<>>
    /\ parsed_protocols = <<>>
    /\ classes = <<>>
    /\ protocols = <<>>
    /\ sym_to_dylib_path = <<>>
    /\ ret = [op |-> "none"]
    /\ exception = NoError
    /\ cur = NoClass
    /\ items = 0

\* No MachoParser is under construction.
NoMacho == [constructed |-> FALSE]

\* No ObjcBlockAnalyzer has been made.
NoBlock == [constructed |-> FALSE]

\* No function analyzer has been made while the parser is at work.
NoAnalyzer ==
    /\ interpreter = 3
    /\ functions = <<>>
    /\ __call_targets = [is_none |-> TRUE, targets |-> <<>>]
    /\ scanned = 0
    /\ outcome = [op |-> "none"]
    /\ block = NoBlock
    /\ macho = NoMacho

Init == ParserInit /\ NoAnalyzer

Next ==
    \/ ParseSelrefs
    \/ ParseClassData
    \/ ParseMetaclassData
    \/ ParseCategory
    \/ ParseProtocol
    \/ ParseLinkedDylibSymbols
    \/ QuerySelectorForSelref
    \/ QueryGetMethodImpAddresses
    \/ QuerySelrefForSelectorName
    \/ QueryPathForExternalSymbol

Spec == Init /\ [][Next]_vars

----------------------------------------------------------------------------
(* Properties.  What a parse has read is recovered from the raw structs    *)
(* the parsed entities keep.                                               *)

\* Does a struct objc_data resolve (is it a valid entry)?
Resolves(d) == d.name >= VirtualBase

\* The method entries of a protocol struct, in the order they are parsed.
MethodEntriesOfProtocol(s) ==
    s.required_instance_methods \o s.required_class_methods
      \o s.optional_instance_methods \o s.optional_class_methods

RECURSIVE MethodEntriesOfProtocols(_)
MethodEntriesOfProtocols(l) ==
    IF l = <<>> THEN <<>>
    ELSE MethodEntriesOfProtocol(Head(l)) \o MethodEntriesOfProtocols(Tail(l))

\* The method entries parsed for a struct objc_data: none if it does not resolve.
MethodEntriesOfData(d) ==
    IF Resolves(d) THEN d.base_methods \o MethodEntriesOfProtocols(d.base_protocols)
    ELSE <<>>

\* The method entries parsed for a class, a category or a protocol.
MethodEntriesOf(e) ==
    IF e.cls = "ObjcClass"
    THEN MethodEntriesOfData(e.raw_struct.data)
           \o MethodEntriesOfData(e.raw_struct.metaclass.data)
    ELSE IF e.cls = "ObjcCategory"
    THEN e.raw_struct.instance_methods \o e.raw_struct.class_methods
           \o MethodEntriesOfProtocols(e.raw_struct.base_protocols)
    ELSE MethodEntriesOfProtocol(e.raw_struct)

RECURSIVE MethodEntriesOfAll(_)
MethodEntriesOfAll(l) ==
    IF l = <<>> THEN <<>> ELSE MethodEntriesOf(Head(l)) \o MethodEntriesOfAll(Tail(l))

\* Every method entry a finished construction parsed, in parse order.
MethodEntriesParsed == MethodEntriesOfAll(classes \o protocols)

\* The selectors in the selector list of some element of l.
ListSelectors(l) == UNION {{l[i].selectors[j] : j \in DOMAIN l[i].selectors} : i \in DOMAIN l}

\* The selectors a method list yields, the ivars an ivar list yields and the
\* protocols a protocol list yields, entry by entry.
SelectorsOf(methlist) ==
    [i \in DOMAIN methlist |->
        selector_of_method(selector_literal_ptr_to_selref_map, methlist[i])]
IvarsOf(ivarlist) ==
    [i \in DOMAIN ivarlist |->
        [name |-> StringAt(ivarlist[i].name), class_name |-> StringAt(ivarlist[i].type),
         field_offset |-> ivarlist[i].offset]]
ProtocolsOf(l) ==
    [i \in DOMAIN l |->
        [cls |-> "ObjcProtocol", raw_struct |-> l[i], name |-> StringAt(l[i].name),
         selectors |-> SelectorsOf(MethodEntriesOfProtocol(l[i])),
         ivars |-> <<>>, protocols |-> <<>>]]

\* _parse_selrefs has returned without raising.
SelrefsParsed == pc # "selrefs" /\ exception # "RuntimeError in _parse_selrefs"

----------------------------------------------------------------------------
C2_SelectorNamedByLiteral ==
    SelrefsParsed =>
      \A i \in DOMAIN selref_pointers :
        TruthyStr(StringAt(selector_literal_pointers[i])) =>
          /\ dict_has(selref_ptr_to_selector_map, selref_pointers[i])
          /\ LET sel == dict_get(selref_ptr_to_selector_map, selref_pointers[i])
             IN  /\ sel.name = StringAt(selector_literal_pointers[i])
                 /\ sel.selref.destination_address = selector_literal_pointers[i]
                 /\ sel.name = StringAt(sel.selref.destination_address)

\* A method-list parse has replaced an entry of the selref map.
C2_Witness ==
    /\ SelrefsParsed
    /\ \E i \in DOMAIN selref_ptr_to_selector_map :
         selref_ptr_to_selector_map[i].v.implementation # None

\* C3: a class-list entry whose class data and metaclass data both resolve
\* yields exactly one ObjcClass: its selectors are those of the class data's
\* method list in order, then those of the metaclass data's method list in
\* order, and its name, ivars and protocols are those of the class data.
C3_BothResolveMerged ==
    [][(/\ pc = "metaclass"
        /\ Resolves(cur.objc_class.data)
        /\ Resolves(cur.objc_class.metaclass.data)
        /\ pc' = "classes")
       => parsed' = Append(parsed,
              [cls |-> "ObjcClass", raw_struct |-> cur.objc_class,
               name |-> StringAt(cur.objc_class.data.name),
               selectors |-> SelectorsOf(cur.objc_class.data.base_methods)
                               \o SelectorsOf(cur.objc_class.metaclass.data.base_methods),
               ivars |-> IvarsOf(cur.objc_class.data.ivars),
               protocols |-> ProtocolsOf(cur.objc_class.data.base_protocols)])]_vars

\* A class merged from class data and metaclass data that both hold methods.
C3_Witness ==
    \E i \in DOMAIN parsed :
      /\ parsed[i].cls = "ObjcClass"
      /\ Resolves(parsed[i].raw_struct.data)
      /\ Resolves(parsed[i].raw_struct.metaclass.data)
      /\ parsed[i].raw_struct.data.base_methods # <<>>
      /\ parsed[i].raw_struct.metaclass.data.base_methods # <<>>
      /\ Len(parsed[i].selectors) = 2

\* C4: a class-list entry appends a class only if its class data or its
\* metaclass data resolves; when neither does, _parse_objc_classes raises for
\* the entry: nothing is appended and the entry is not passed over.
C4_NeitherResolvesRaises ==
    [][/\ (/\ pc = "metaclass"
           /\ ~Resolves(cur.objc_class.data)
           /\ ~Resolves(cur.objc_class.metaclass.data))
          => /\ pc' = "failed"
             /\ exception' = "RuntimeError in _parse_objc_classes"
             /\ parsed' = parsed
       /\ (pc = "metaclass" /\ parsed' # parsed)
          => /\ Len(parsed') = Len(parsed) + 1
             /\ \/ Resolves(cur.objc_class.data)
                \/ Resolves(cur.objc_class.metaclass.data)
       /\ (pc = "classes" /\ pc' = "metaclass") => parsed' = parsed]_vars

\* An entry neither of whose data structs resolves has made the parse raise.
C4_Witness ==
    /\ pc = "failed"
    /\ exception = "RuntimeError in _parse_objc_classes"
    /\ ~Resolves(cur.objc_class.data)
    /\ ~Resolves(cur.objc_class.metaclass.data)

\* C5: a string that cannot be read is skipped by _parse_selrefs (the pair
\* gets no entry in either map, every other pair gets its entries) and is
\* fatal to read_selectors_from_methlist_ptr (it raises, returning no
\* selector list: no parsed entity holds a method entry with such a name).
C5_MissingString ==
    /\ SelrefsParsed =>
         \A i \in DOMAIN selref_pointers :
           IF TruthyStr(StringAt(selector_literal_pointers[i]))
           THEN /\ dict_has(selref_ptr_to_selector_map, selref_pointers[i])
                /\ dict_has(selector_literal_ptr_to_selref_map,
                            selector_literal_pointers[i])
           ELSE /\ ~dict_has(selref_ptr_to_selector_map, selref_pointers[i])
                /\ ~dict_has(selector_literal_ptr_to_selref_map,
                             selector_literal_pointers[i])
    /\ pc = "classes" =>
         \A methlist \in MethLists(MaxMethods) :
           (\E i \in DOMAIN methlist : ~TruthyStr(StringAt(methlist[i].name))) =>
             \A r \in {read_selectors_from_methlist_ptr(methlist,
                            selref_ptr_to_selector_map,
                            selector_literal_ptr_to_selref_map)} :
               /\ r.raised
               /\ r.error = "ValueError in read_selectors_from_methlist_ptr"
               /\ r.value = <<>>
    /\ \A i \in DOMAIN parsed : \A j \in DOMAIN MethodEntriesOf(parsed[i]) :
         TruthyStr(StringAt(MethodEntriesOf(parsed[i])[j].name))
    /\ \A i \in DOMAIN parsed_protocols :
         \A j \in DOMAIN MethodEntriesOf(parsed_protocols[i]) :
           TruthyStr(StringAt(MethodEntriesOf(parsed_protocols[i])[j].name))
    /\ \A i \in DOMAIN cur.parsed_class :
         \A j \in DOMAIN MethodEntriesOfData(cur.parsed_class[i].raw_struct.data) :
           TruthyStr(StringAt(MethodEntriesOfData(cur.parsed_class[i].raw_struct.data)[j].name))

\* One pair of the selref section was skipped and another populated, and a
\* method entry with an unreadable name then made the parse raise.
C5_Witness ==
    /\ pc = "failed"
    /\ exception = "ValueError in read_selectors_from_methlist_ptr"
    /\ \E i \in DOMAIN selref_pointers :
         ~TruthyStr(StringAt(selector_literal_pointers[i]))
    /\ \E i \in DOMAIN selref_pointers :
         TruthyStr(StringAt(selector_literal_pointers[i]))

\* C6: when the two pointer arrays of the selref section differ in length,
\* construction raises before any class, category or protocol is parsed; and
\* after any exception raised by construction nothing of the parser is
\* observable: queries are answered only by a parser whose construction
\* returned.
C6_FatalErrorExposesNothing ==
    /\ (pc # "selrefs" /\ Len(selref_pointers) # Len(selector_literal_pointers)) =>
         /\ pc = "failed"
         /\ exception = "RuntimeError in _parse_selrefs"
         /\ parsed = <<>> /\ parsed_protocols = <<>> /\ cur = NoClass
         /\ classes = <<>> /\ protocols = <<>> /\ sym_to_dylib_path = <<>>
         /\ selref_ptr_to_selector_map = <<>>
         /\ selector_literal_ptr_to_selref_map = <<>>
    /\ pc = "failed" <=> exception # NoError
    /\ pc = "failed" => ret = [op |-> "none"] /\ sym_to_dylib_path = <<>>
    /\ ret # [op |-> "none"] => pc = "done" /\ exception = NoError

\* Construction has failed on a selref section whose arrays differ in length.
C6_Witness ==
    /\ pc = "failed"
    /\ Len(selref_pointers) # Len(selector_literal_pointers)

\* C7: an ObjcCategory is named base_class + " (" + category_name + ")";
\* every category the parser produces has the unknown-class sentinel as
\* base_class, so it is named "$_Unknown_Class (<category_name>)" whatever
\* the base_class pointer of its struct holds.
C7_CategoryName ==
    /\ ObjcCategory(<<>>, "Foo", "Bar", <<>>, <<>>).name = "Foo (Bar)"
    /\ \A i \in DOMAIN parsed :
         parsed[i].cls = "ObjcCategory" =>
           /\ parsed[i].name
                = parsed[i].base_class \o " (" \o parsed[i].category_name \o ")"
           /\ parsed[i].base_class = "$_Unknown_Class"
           /\ parsed[i].category_name = StringAt(parsed[i].raw_struct.name)
           /\ parsed[i].name
                = "$_Unknown_Class (" \o StringAt(parsed[i].raw_struct.name) \o ")"
    /\ \A i \in DOMAIN classes :
         classes[i].cls = "ObjcCategory" =>
           classes[i].name
             = "$_Unknown_Class (" \o StringAt(classes[i].raw_struct.name) \o ")"

\* A finished construction holds a category whose struct has a base_class
\* pointer that is not null.
C7_Witness ==
    /\ pc = "done"
    /\ \E i \in DOMAIN classes :
         /\ classes[i].cls = "ObjcCategory"
         /\ classes[i].raw_struct.base_class # 0
         /\ classes[i].name = "$_Unknown_Class (a)"

\* The selectors of the selector lists the parse has produced: they are
\* built from method entries.
MethodListSelectors ==
    ListSelectors(parsed) \cup ListSelectors(parsed_protocols)
      \cup ListSelectors(cur.parsed_class)
      \cup UNION {ListSelectors(parsed[i].protocols) : i \in DOMAIN parsed}
      \cup UNION {ListSelectors(cur.parsed_class[i].protocols)
                  : i \in DOMAIN cur.parsed_class}

\* Every selector the state holds: those of the lists, those of the selref
\* map, and the one a query returned.
AllSelectors ==
    MethodListSelectors
      \cup {selref_ptr_to_selector_map[i].v : i \in DOMAIN selref_ptr_to_selector_map}
      \cup (IF ret.op = "selector_for_selref" /\ ret.value # NoSelector
            THEN {ret.value} ELSE {})

\* C8 (as amended): is_external_definition is true exactly when the
\* implementation is none or the null address 0; a selector built from a
\* method-list entry, whose implementation is the raw address with the low 2
\* bits cleared, is an external definition exactly when that address is 0.
C8_ExternalIffNoneOrNull ==
    /\ \A S \in AllSelectors :
         S.is_external_definition <=> (S.implementation = None \/ S.implementation = 0)
    /\ \A S \in MethodListSelectors :
         /\ S.implementation # None
         /\ S.implementation % 4 = 0
         /\ S.is_external_definition <=> (S.implementation = 0)

\* C8 as stated: external exactly when the implementation is none, so a
\* selector built from a method-list entry is never external.
C8_ExternalIffNone ==
    /\ \A S \in AllSelectors :
         S.is_external_definition <=> (S.implementation = None)
    /\ \A S \in MethodListSelectors : ~S.is_external_definition

\* A finished construction holds a selector built from a method entry
\* whose masked address is 0, and one whose masked address is not.
C8_Witness ==
    /\ pc = "done"
    /\ \E S \in ListSelectors(classes) : S.implementation = 0
    /\ \E S \in ListSelectors(classes) : Truthy(S.implementation)

\* What C9 says selector_for_selref(a) returns, given the two maps.
SelectorForSelrefStated(sel_map, lit_map, a) ==
    IF \E i \in DOMAIN sel_map : sel_map[i].k = a
    THEN sel_map[CHOOSE i \in DOMAIN sel_map : sel_map[i].k = a].v
    ELSE IF \E j \in DOMAIN lit_map : lit_map[j].v.source_address = a
    THEN LET known == lit_map[CHOOSE j \in DOMAIN lit_map :
                                 lit_map[j].v.source_address = a].v
         IN  [name |-> known.selector_literal, selref |-> known,
              implementation |-> None, is_external_definition |-> TRUE]
    ELSE NoSelector

\* C9: selector_for_selref(a) returns the entry of the selref map for a when
\* there is one; otherwise, when a known selref has source address a, a new
\* selector with that selref's literal as name and no implementation;
\* otherwise none.  It never raises: every query has a result.  The second
\* case is also put to the query on the selref map without its entry for a.
C9_SelectorForSelref ==
    /\ ret.op = "selector_for_selref" =>
         ret.value = SelectorForSelrefStated(selref_ptr_to_selector_map,
                                             selector_literal_ptr_to_selref_map,
                                             ret.arg)
    /\ pc = "done" =>
         \A a \in QueryAddrs :
           /\ selector_for_selref(selref_ptr_to_selector_map,
                                  selector_literal_ptr_to_selref_map, a)
                = SelectorForSelrefStated(selref_ptr_to_selector_map,
                                          selector_literal_ptr_to_selref_map, a)
           /\ selector_for_selref(dict_del(selref_ptr_to_selector_map, a),
                                  selector_literal_ptr_to_selref_map, a)
                = SelectorForSelrefStated(dict_del(selref_ptr_to_selector_map, a),
                                          selector_literal_ptr_to_selref_map, a)

\* One query has returned a selector with an implementation while another
\* address of the section is no known selref.
C9_Witness ==
    /\ ret.op = "selector_for_selref"
    /\ ret.value # NoSelector
    /\ Truthy(ret.value.implementation)
    /\ \E a \in QueryAddrs :
         selector_for_selref(selref_ptr_to_selector_map,
                             selector_literal_ptr_to_selref_map, a) = NoSelector

RECURSIVE SelectorsOfAll(_)
\* The selectors of the classes of a list, in class order then selector order.
SelectorsOfAll(cls) ==
    IF cls = <<>> THEN <<>> ELSE Head(cls).selectors \o SelectorsOfAll(Tail(cls))

\* The implementations of the selectors named name, in that order, but for
\* the implementations of absent.
ImplementationsNamed(cls, name, absent) ==
    LET named == SelectSeq(SelectorsOfAll(cls),
                           LAMBDA S : S.name = name /\ S.implementation \notin absent)
    IN  [i \in DOMAIN named |-> named[i].implementation]

\* C10 (as amended): get_method_imp_addresses(name) returns, in class order
\* then selector order, the implementation address of every selector named
\* name of all parsed classes and categories, duplicates kept, and nothing
\* else; selectors with no implementation, or whose implementation is the
\* null address 0, contribute no address.
C10_ImpAddressesButNull ==
    ret.op = "get_method_imp_addresses" =>
      ret.value = ImplementationsNamed(classes, ret.arg, {None, 0})

\* C10 as stated: only selectors with no implementation contribute nothing.
C10_ImpAddressesOfEverySelector ==
    ret.op = "get_method_imp_addresses" =>
      ret.value = ImplementationsNamed(classes, ret.arg, {None})

\* A query has returned an address for a name that a selector with the
\* null address also bears.
C10_Witness ==
    /\ ret.op = "get_method_imp_addresses"
    /\ Len(ret.value) = 1
    /\ \E S \in ListSelectors(classes) : S.name = ret.arg /\ S.implementation = 0

\* C11: on a constructed parser, no read query (selector_for_selref,
\* selref_for_selector_name, get_method_imp_addresses,
\* path_for_external_symbol) changes classes, protocols, either selref map
\* or the symbol-to-library map, whether or not what is asked for is found.
C11_QueriesChangeNothing ==
    [][pc = "done" =>
         UNCHANGED <<classes, protocols, selref_ptr_to_selector_map,
                     selector_literal_ptr_to_selref_map, sym_to_dylib_path>>]_vars

\* A query for a name that is not found has been answered after the parse
\* of a binary that holds a selref, a class and an undefined symbol.
C11_Witness ==
    /\ pc = "done"
    /\ \/ ret.op = "selref_for_selector_name" /\ ret.value = None
       \/ ret.op = "path_for_external_symbol" /\ ret.value = NoString
    /\ selref_ptr_to_selector_map # <<>>
    /\ classes # <<>>
    /\ sym_to_dylib_path # <<>>

----------------------------------------------------------------------------
(* The function analyzer (src/strongarm/objc_analyzer.py).                 *)
(*                                                                         *)
(* An ObjcFunctionAnalyzer holds the decoded instructions of one function. *)
(* An instruction is the record the decoder hands over: its address, its   *)
(* mnemonic and its operands, each operand a register, an immediate or a   *)
(* memory reference (base register and displacement).                      *)

\* Operands, as capstone decodes them (ARM64_OP_REG, ARM64_OP_IMM,
\* ARM64_OP_MEM).
Reg(name) == [type |-> "REG", reg |-> name, imm |-> 0, disp |-> 0]
Imm(value) == [type |-> "IMM", reg |-> "", imm |-> value, disp |-> 0]
Mem(base, disp) == [type |-> "MEM", reg |-> base, imm |-> 0, disp |-> disp]

\* A decoded instruction, before it is placed at an address.
Decoded(mnemonic, operands) == [mnemonic |-> mnemonic, operands |-> operands]

\* The CsInsn objects of a function that starts at start_address: instruction
\* i lies 4 bytes after instruction i - 1, so no two are equal.
CsInsns(start_address, body) ==
    [i \in DOMAIN body |-> [address |-> start_address + 4 * (i - 1),
                            mnemonic |-> body[i].mnemonic,
                            operands |-> body[i].operands]]

\* list.index(x): the position (counted from 0) of the first element equal
\* to x.
list_index(l, x) == (CHOOSE i \in DOMAIN l : l[i] = x /\ \A j \in 1..(i - 1) : l[j] # x) - 1
\* x in l
list_has(l, x) == \E i \in DOMAIN l : l[i] = x
\* list.remove(x): the list without the first element equal to x.
list_remove(l, x) ==
    [i \in 1..(Len(l) - 1) |-> IF i < list_index(l, x) + 1 THEN l[i] ELSE l[i + 1]]

\* _trimmed_reg_name: the name without a leading 'x' or 'w'.
_trimmed_reg_name(reg_name) ==
    CASE reg_name \in {"x1", "w1"} -> "1"
      [] reg_name \in {"x8", "w8"} -> "8"
      [] reg_name \in {"x22", "w22"} -> "22"
      [] reg_name \in {"xzr", "wzr"} -> "zr"
      [] reg_name = "wsp" -> "sp"
      [] OTHER -> reg_name

\* What a step of the analyzer hands back when it raises RuntimeError.
RuntimeError(message) ==
    [raised |-> TRUE, error |-> "RuntimeError", message |-> message, value |-> None]
\* What it hands back when it returns an integer.
Value(v) == [raised |-> FALSE, error |-> NoError, message |-> "", value |-> v]

\* determine_register_contents: the locals before the scan.
data_flow_start(desired_reg) ==
    [unknown_regs |-> <<_trimmed_reg_name(desired_reg)>>,
     determined_values |-> <<>>,
     needed_links |-> <<>>]

\* determine_register_contents, "src might not actually be the first
\* operand": the source operand of an instruction with two operands or more.
source_operand(instr) ==
    IF /\ Len(instr.operands) > 2
       /\ instr.operands[2].type = "REG"
       /\ _trimmed_reg_name(instr.operands[2].reg) = "zr"
    THEN instr.operands[3]
    ELSE instr.operands[2]

\* Fault variant of data_flow_assign: a register assigned from another
\* register stays in the list of unknown registers.
data_flow_assign_kept(st, dst_reg_name, src) ==
    CASE src.type = "IMM" ->
           [st EXCEPT !.unknown_regs = list_remove(@, dst_reg_name),
                      !.determined_values = dict_set(@, dst_reg_name, src.imm)]
      [] src.type \in {"REG", "MEM"} ->
           [st EXCEPT !.unknown_regs = Append(@, _trimmed_reg_name(src.reg)),
                      !.needed_links =
                          dict_set(@, dst_reg_name,
                                   [reg |-> _trimmed_reg_name(src.reg),
                                    offset |-> src.disp])]
      [] OTHER -> st

\* determine_register_contents, "if src.type == ARM64_OP_IMM: .. elif .. ":
\* the locals after an instruction that writes a wanted register.  The
\* register and the memory branch of the code differ only in the offset, 0
\* for a register, which is the disp a Reg operand carries here.
data_flow_assign(st, dst_reg_name, src) ==
    CASE src.type = "IMM" ->
           [st EXCEPT !.unknown_regs = list_remove(@, dst_reg_name),
                      !.determined_values = dict_set(@, dst_reg_name, src.imm)]
      [] src.type \in {"REG", "MEM"} ->
           IF dict_has(st.determined_values, _trimmed_reg_name(src.reg))
           THEN [st EXCEPT !.unknown_regs = list_remove(@, dst_reg_name),
                           !.determined_values =
                               dict_set(@, dst_reg_name,
                                        dict_get(@, _trimmed_reg_name(src.reg)) + src.disp)]
           ELSE [st EXCEPT !.unknown_regs =
                               Append(list_remove(@, dst_reg_name),
                                      _trimmed_reg_name(src.reg)),
                           !.needed_links =
                               dict_set(@, dst_reg_name,
                                        [reg |-> _trimmed_reg_name(src.reg),
                                         offset |-> src.disp])]
      [] OTHER -> st

\* determine_register_contents: the mnemonics the scan leaves out.
excluded_instructions == {"str"}

\* determine_register_contents: the body of the loop for one instruction.
data_flow_instr(st, instr) ==
    IF Len(instr.operands) < 2 THEN st
    ELSE IF instr.mnemonic \in excluded_instructions THEN st
    ELSE IF instr.operands[1].type # "REG" THEN st
    ELSE IF ~list_has(st.unknown_regs, _trimmed_reg_name(instr.operands[1].reg)) THEN st
    ELSE data_flow_assign(st, _trimmed_reg_name(instr.operands[1].reg),
                          source_operand(instr))

\* determine_register_contents, "for instr in
\* self._instructions[start_index::-1]": the locals when the loop is left,
\* i being the position (counted from 1) of the next instruction to read.
RECURSIVE data_flow_loop(_, _, _)
data_flow_loop(instructions, i, st) ==
    IF i = 0 \/ Len(st.unknown_regs) = 0 THEN st
    ELSE data_flow_loop(instructions, i - 1, data_flow_instr(st, instructions[i]))

\* _resolve_register_value_from_data_links, after the recursive call has
\* handed back source: "final_val = .. + offset", and the link is replaced by
\* the value found.
link_resolved(desired_reg, link, source) ==
    IF source.raised THEN source
    ELSE [source EXCEPT !.value = @ + link.offset,
                        !.links = dict_del(@, desired_reg),
                        !.resolved_registers =
                            dict_set(@, desired_reg, source.value + link.offset)]

\* _resolve_register_value_from_data_links: the value, and the two dicts as
\* the call leaves them.
RECURSIVE _resolve_register_value_from_data_links(_, _, _)
_resolve_register_value_from_data_links(desired_reg, links, resolved_registers) ==
    IF Len(resolved_registers) = 0
    THEN RuntimeError("need at least one known value")
    ELSE IF /\ ~dict_has(links, _trimmed_reg_name(desired_reg))
            /\ ~dict_has(resolved_registers, _trimmed_reg_name(desired_reg))
    THEN RuntimeError("invalid data set")
    ELSE IF dict_has(resolved_registers, _trimmed_reg_name(desired_reg))
    THEN [raised |-> FALSE, error |-> NoError, message |-> "",
          value |-> dict_get(resolved_registers, _trimmed_reg_name(desired_reg)),
          links |-> links, resolved_registers |-> resolved_registers]
    ELSE link_resolved(_trimmed_reg_name(desired_reg),
                       dict_get(links, _trimmed_reg_name(desired_reg)),
                       _resolve_register_value_from_data_links(
                           dict_get(links, _trimmed_reg_name(desired_reg)).reg,
                           links, resolved_registers))

\* determine_register_contents, "return self._resolve_register_value_..":
\* the resolver's exception or value, without the dicts it worked on.
resolver_return(r) == IF r.raised THEN RuntimeError(r.message) ELSE Value(r.value)

\* determine_register_contents, after the loop: the two checks, then the
\* resolver.
data_flow_result(desired_reg, st) ==
    IF dict_has(st.needed_links, "sp")
    THEN RuntimeError("contents depends on stack")
    ELSE IF Len(st.unknown_regs) # 0
    THEN RuntimeError("loop exited before all unknowns were marked")
    ELSE resolver_return(_resolve_register_value_from_data_links(
                             desired_reg, st.needed_links, st.determined_values))

\* instructions[start_index::-1] starts at the last instruction when
\* start_index lies past the end.
determine_register_contents(instructions, desired_reg, start_index) ==
    data_flow_result(desired_reg,
                     data_flow_loop(instructions,
                                    Min(start_index + 1, Len(instructions)),
                                    data_flow_start(desired_reg)))

----------------------------------------------------------------------------
(* The binary's code.                                                      *)

\* Start addresses of the functions of the binary.
FuncA == 100
FuncB == 200
FuncC == 300
FunctionAddrs == {FuncA, FuncB, FuncC}

\* A function has at most this many instructions.
MaxInstructions == 3

\* Sequences over pool of length 1 .. n (a function is never empty).
Bodies(pool, n) == UNION {[1..k -> pool] : k \in 1..n}

\* A single instruction that moves no data and does not branch.
Ret == Decoded("ret", <<>>)

\* Instructions that move data between registers.
DataInstructions ==
    {Decoded("mov", <<Reg("x8"), Imm(256)>>),
     Decoded("mov", <<Reg("x22"), Reg("x8")>>),
     Decoded("mov", <<Reg("x1"), Reg("x22")>>),
     Decoded("ldr", <<Reg("x1"), Mem("x8", 16)>>),
     Decoded("ldr", <<Reg("x8"), Mem("x8", 16)>>),
     Decoded("ldr", <<Reg("x1"), Mem("sp", 16)>>),
     Decoded("mov", <<Reg("sp"), Imm(512)>>),
     Decoded("sub", <<Reg("sp"), Reg("sp"), Imm(48)>>),
     Decoded("str", <<Reg("x1"), Mem("sp", 56)>>),
     Decoded("orr", <<Reg("x1"), Reg("wzr"), Imm(2)>>),
     Ret}

\* The registers asked about.
QueryRegs == {"x1", "w8"}

\* get_function_instructions (MachoAnalyzer): the instructions of the
\* function that starts at start_address.
get_function_instructions(fns, start_address) == fns[start_address]

\* self._instructions of the analyzer in use, which was made for the
\* function at FuncA.
_instructions == functions[FuncA]

\* The state after ObjcFunctionAnalyzer.__init__.
NewAnalyzer ==
    /\ interpreter \in {2, 3}
    /\ __call_targets = [is_none |-> TRUE, targets |-> <<>>]
    /\ scanned = 0
    /\ outcome = [op |-> "none"]
    /\ block = NoBlock
    /\ macho = NoMacho

\* A binary whose function at FuncA moves data between registers.
DataFlowInit ==
    /\ ParserInit
    /\ NewAnalyzer
    /\ \E body \in Bodies(DataInstructions, MaxInstructions) :
           functions = [a \in FunctionAddrs |->
                           CsInsns(a, IF a = FuncA THEN body ELSE <<Ret>>)]

\* determine_register_contents(desired_reg, start_index).
DetermineRegisterContents ==
    /\ \E desired_reg \in QueryRegs, start_index \in 0..(Len(_instructions) - 1) :
           outcome' = [op |-> "determine_register_contents",
                       desired_reg |-> desired_reg,
                       start_index |-> start_index,
                       result |-> determine_register_contents(
                                      _instructions, desired_reg, start_index)]
    /\ UNCHANGED <<interpreter, functions, __call_targets, scanned, block, macho>>
    /\ UNCHANGED parser_vars

DataFlowNext == DetermineRegisterContents

SpecDataFlow == DataFlowInit /\ [][DataFlowNext]_vars

----------------------------------------------------------------------------
(* Properties of the data flow.  The chain of assignments behind a         *)
(* register is read off the instructions themselves, one assignment at a   *)
(* time, each register looked up from the instruction before the one that  *)
(* used it.                                                                *)

\* instr assigns a single destination register named reg (trimmed).
Assigns(instr, reg) ==
    /\ Len(instr.operands) >= 2
    /\ instr.mnemonic \notin excluded_instructions
    /\ instr.operands[1].type = "REG"
    /\ _trimmed_reg_name(instr.operands[1].reg) = reg

\* The positions, at most i, of the instructions that assign reg.
Assignments(instructions, reg, i) == {j \in 1..i : Assigns(instructions[j], reg)}

\* The last of a non-empty set of positions.
Last(positions) == CHOOSE j \in positions : \A k \in positions : k <= j

\* One step up a chain: the value of the source plus the displacement of the
\* operand that names it.
ChainLink(src, source) ==
    [defined |-> source.defined,
     sp |-> source.sp \/ _trimmed_reg_name(src.reg) = "sp",
     repeated |-> source.repeated,
     value |-> source.value + src.disp]

\* The chain of assignments that gives reg its value after instruction i:
\* whether it ends at an immediate, whether it passes through the stack
\* pointer, whether a register name is assigned twice on it, and the
\* immediate plus the displacements met on the way.  seen holds the names
\* assigned further down the chain.
RECURSIVE Chain(_, _, _, _)
Chain(instructions, reg, i, seen) ==
    IF Assignments(instructions, reg, i) = {}
    THEN [defined |-> FALSE, sp |-> FALSE, repeated |-> reg \in seen, value |-> 0]
    ELSE LET j == Last(Assignments(instructions, reg, i))
             src == source_operand(instructions[j])
         IN  CASE src.type = "IMM" ->
                    [defined |-> TRUE, sp |-> FALSE, repeated |-> reg \in seen,
                     value |-> src.imm]
               [] src.type \in {"REG", "MEM"} ->
                    [ChainLink(src, Chain(instructions, _trimmed_reg_name(src.reg),
                                          j - 1, seen \cup {reg}))
                       EXCEPT !.repeated = @ \/ reg \in seen]

\* The chain behind the register the last call asked about.
ChainAsked ==
    Chain(_instructions, _trimmed_reg_name(outcome.desired_reg),
          outcome.start_index + 1, {})

\* C19: determine_register_contents(r, i) returns the immediate at the end
\* of the chain of assignments behind r, plus the displacements of the memory
\* operands on the chain, for every chain that ends at an immediate, chains
\* that assign a register name more than once included.
C19_ChainValue ==
    outcome.op = "determine_register_contents" =>
        (ChainAsked.defined /\ ~ChainAsked.sp =>
             outcome.result = Value(ChainAsked.value))

\* C19, on the chains that assign no register name twice: the value returned
\* is the immediate plus the displacements.
C19_ChainValueNoRepeat ==
    outcome.op = "determine_register_contents" =>
        (ChainAsked.defined /\ ~ChainAsked.sp /\ ~ChainAsked.repeated =>
             outcome.result = Value(ChainAsked.value))

\* mov x8, #0x100; mov x22, x8; mov x1, x22 gives 0x100 for x1.
C19_Witness ==
    /\ outcome.op = "determine_register_contents"
    /\ outcome.desired_reg = "x1"
    /\ outcome.start_index = 2
    /\ _instructions = CsInsns(FuncA, <<Decoded("mov", <<Reg("x8"), Imm(256)>>),
                                        Decoded("mov", <<Reg("x22"), Reg("x8")>>),
                                        Decoded("mov", <<Reg("x1"), Reg("x22")>>)>>)
    /\ ChainAsked.defined /\ ~ChainAsked.repeated
    /\ outcome.result = Value(256)

\* C20: determine_register_contents raises RuntimeError, and returns no
\* value, whenever the chain behind the register passes through the stack
\* pointer, whatever comes before the load, writes to the stack pointer
\* included.
C20_StackPointerRaises ==
    outcome.op = "determine_register_contents" =>
        (ChainAsked.sp =>
             outcome.result.raised /\ outcome.result.error = "RuntimeError")

\* C20, where nothing before the load assigns the stack pointer an
\* immediate: the call raises.
C20_StackPointerRaisesUnlessImmediate ==
    outcome.op = "determine_register_contents" =>
        (ChainAsked.sp /\ ~ChainAsked.defined =>
             outcome.result.raised /\ outcome.result.error = "RuntimeError")

\* ldr x1, [sp, #0x10] at the head of a function: the call raises.
C20_Witness ==
    /\ outcome.op = "determine_register_contents"
    /\ outcome.desired_reg = "x1"
    /\ ChainAsked.sp
    /\ ~ChainAsked.defined
    /\ outcome.result.raised

----------------------------------------------------------------------------
(* Branches and call targets.                                              *)

\* The stubs of the symbols the binary imports: _objc_msgSend, and one
\* function of a C library.
MsgSendStub == 900
NSLogStub == 904
ExternalStubs == {MsgSendStub, NSLogStub}

\* Two slots of the selref section: the selector of the first is implemented
\* in the binary, by the function at FuncB; the selector of the second is not.
SelrefLocal == 700
SelrefExternal == 704

\* MachoAnalyzer.imp_for_selref: the implementation of the selector a selref
\* names, None when the binary has none.
imp_for_selref(selref) == IF selref = SelrefLocal THEN FuncB ELSE None

\* ObjcBranchInstr(binary, instr): the branch record made of a branch
\* instruction, whose one operand is the address branched to.
ObjcBranchInstr(instr) ==
    [address |-> instr.address,
     raw_instr |-> instr,
     destination_address |-> instr.operands[1].imm,
     is_msgSend_call |-> instr.operands[1].imm = MsgSendStub,
     is_external_c_call |-> instr.operands[1].imm \in ExternalStubs,
     is_external_objc_call |-> FALSE,
     selref |-> None]

\* next_branch: the mnemonics that make an instruction a branch.
branch_mnemonics == {"b", "bl", "bx", "blx", "bxj"}

\* get_selref: the contents of x1 at the msgSend instruction.
get_selref(instructions, msgsend_instr) ==
    determine_register_contents(instructions, "x1",
                                list_index(instructions, msgsend_instr))

\* next_branch, "try: .. except RuntimeError: sel_imp = None": the
\* implementation found for the result of get_selref.
sel_imp_of(selref) == IF selref.raised THEN None ELSE imp_for_selref(selref.value)

\* Fault variant of msgsend_patched: without an implementation the record
\* keeps the destination the instruction branches to.
msgsend_patched_kept(branch_instr, selref) ==
    [branch_instr EXCEPT !.is_external_objc_call = ~Truthy(sel_imp_of(selref)),
                         !.selref = IF selref.raised THEN None ELSE selref.value,
                         !.destination_address =
                             IF Truthy(sel_imp_of(selref))
                             THEN sel_imp_of(selref)
                             ELSE @]

\* next_branch, "if branch_instr.is_msgSend_call:": the record with the
\* selref and the destination patched in, selref being the result of
\* get_selref.
msgsend_patched(branch_instr, selref) ==
    [branch_instr EXCEPT !.is_external_objc_call = ~Truthy(sel_imp_of(selref)),
                         !.selref = IF selref.raised THEN None ELSE selref.value,
                         !.destination_address = sel_imp_of(selref)]

\* next_branch, for the branch instruction found.
branch_found(instructions, instr) ==
    IF ObjcBranchInstr(instr).is_msgSend_call
    THEN msgsend_patched(ObjcBranchInstr(instr), get_selref(instructions, instr))
    ELSE ObjcBranchInstr(instr)

\* next_branch, "for idx, instr in enumerate(self._instructions[start_index::])":
\* the positions (counted from 1) of the branches from start_index on.
branches_from(instructions, start_index) ==
    {i \in (start_index + 1)..Len(instructions) :
         instructions[i].mnemonic \in branch_mnemonics}

\* The first of a non-empty set of positions.
First(positions) == CHOOSE i \in positions : \A k \in positions : i <= k

\* next_branch: <<>> for None, else the one branch record returned.
next_branch(instructions, start_index) ==
    IF branches_from(instructions, start_index) = {}
    THEN <<>>
    ELSE <<branch_found(instructions,
                        instructions[First(branches_from(instructions, start_index))])>>

RECURSIVE call_targets_loop(_, _, _)

\* Fault variant of call_targets_next: the search for the next branch starts
\* two instructions after the branch found.
call_targets_next_skipping(instructions, targets, branch) ==
    IF branch = <<>>
    THEN targets
    ELSE call_targets_loop(instructions,
                           list_index(instructions, branch[1].raw_instr) + 2,
                           Append(targets, branch[1]))

\* call_targets, one iteration of "while True:" given what next_branch
\* returned, and the iterations after it.
call_targets_next(instructions, targets, branch) ==
    IF branch = <<>>
    THEN targets
    ELSE call_targets_loop(instructions,
                           list_index(instructions, branch[1].raw_instr) + 1,
                           Append(targets, branch[1]))

\* call_targets, "while True: next_branch = self.next_branch(last_branch_idx)".
call_targets_loop(instructions, last_branch_idx, targets) ==
    call_targets_next(instructions, targets, next_branch(instructions, last_branch_idx))

\* call_targets, when nothing is cached: the list built.
call_targets(instructions) == call_targets_loop(instructions, 0, <<>>)

\* Fault variant of is_cached: the cached list is tested for truth, which an
\* empty list fails.
is_cached_truthy(cache) == ~cache.is_none /\ cache.targets # <<>>

\* call_targets, "if self.__call_targets is not None:".
is_cached(cache) == ~cache.is_none

\* The property call_targets read on the analyzer in use: the list returned.
call_targets_read(cache, instructions) ==
    IF is_cached(cache) THEN cache.targets ELSE call_targets(instructions)

\* How many times next_branch runs in such a read: once per branch and once
\* more to find that none is left.
call_targets_scans(cache, instructions) ==
    IF is_cached(cache) THEN 0 ELSE Len(call_targets(instructions)) + 1

----------------------------------------------------------------------------
(* Reachability.                                                           *)

\* The depth of calls at which the interpreter gives up (sys.
\* getrecursionlimit(), scaled down).
RecursionLimit == 4

\* What a search has done so far: whether it entered a function that it was
\* already exploring, and the addresses of the branches it followed into the
\* function they call.
NothingSeen == [revisited |-> FALSE, followed |-> {}]
Entered(path, start_address) ==
    [revisited |-> list_has(path, start_address), followed |-> {}]
Followed(seen, target) == [seen EXCEPT !.followed = @ \cup {target.address}]
SeenBoth(seen, child) ==
    [revisited |-> seen.revisited \/ child.revisited,
     followed |-> seen.followed \cup child.followed]

\* What can_execute_call hands back: the boolean returned, or the exception
\* raised, with what the search has done.
Answer(value, seen) ==
    [raised |-> FALSE, error |-> NoError, value |-> value, seen |-> seen]
Failure(error, seen) ==
    [raised |-> TRUE, error |-> error, value |-> FALSE, seen |-> seen]

\* Fault variant of is_local_branch: the range is open at end_address.
is_local_branch_half_open(py, start_address, end_address, branch_instruction) ==
    IF branch_instruction.destination_address = None
    THEN IF py = 3
         THEN Failure("TypeError", NothingSeen)
         ELSE Answer(FALSE, NothingSeen)
    ELSE Answer(/\ start_address <= branch_instruction.destination_address
                /\ branch_instruction.destination_address < end_address,
                NothingSeen)

\* is_local_branch: start_address <= destination_address <= end_address.
\* With no destination the comparison is of an int with None: Python 3
\* raises TypeError, Python 2 orders None below every int.
is_local_branch(py, start_address, end_address, branch_instruction) ==
    IF branch_instruction.destination_address = None
    THEN IF py = 3
         THEN Failure("TypeError", NothingSeen)
         ELSE Answer(FALSE, NothingSeen)
    ELSE Answer(/\ start_address <= branch_instruction.destination_address
                /\ branch_instruction.destination_address <= end_address,
                NothingSeen)

\* can_execute_call, "if target.is_external_objc_call:": the debug line
\* formats hex(int(target.selref)) before the continue, and int(None) raises
\* TypeError.
external_objc_logged(target) ==
    IF target.selref = None
    THEN Failure("TypeError", NothingSeen)
    ELSE Answer(FALSE, NothingSeen)

\* The last address of a function.
end_address_of(instructions) == instructions[Len(instructions)].address

RECURSIVE can_execute_call(_, _, _, _, _)
RECURSIVE targets_loop(_, _, _, _, _, _, _)

\* can_execute_call, after the recursive call on the target's function has
\* handed back child: True ends the search, False goes on to the next target.
child_searched(py, fns, path, targets, i, call_address, seen, child) ==
    IF child.raised \/ child.value
    THEN [child EXCEPT !.seen = SeenBoth(seen, @)]
    ELSE targets_loop(py, fns, path, targets, i + 1, call_address,
                      SeenBoth(seen, child.seen))

\* can_execute_call, a target that is neither external nor local: the
\* search of the function it calls.
target_followed(py, fns, path, targets, i, call_address, seen) ==
    child_searched(py, fns, path, targets, i, call_address,
                   Followed(seen, targets[i]),
                   can_execute_call(py, fns, targets[i].destination_address,
                                    call_address, path))

\* can_execute_call, from "if target.is_external_objc_call:" on, logged
\* being what formatting the debug line gave.
target_not_local(py, fns, path, targets, i, call_address, seen, logged) ==
    IF targets[i].is_external_objc_call
    THEN IF logged.raised
         THEN Failure(logged.error, seen)
         ELSE targets_loop(py, fns, path, targets, i + 1, call_address, seen)
    ELSE target_followed(py, fns, path, targets, i, call_address, seen)

\* can_execute_call, from "if self.is_local_branch(target):" on, local being
\* what is_local_branch gave.
target_not_external(py, fns, path, targets, i, call_address, seen, local) ==
    IF local.raised
    THEN Failure(local.error, seen)
    ELSE IF local.value
    THEN targets_loop(py, fns, path, targets, i + 1, call_address, seen)
    ELSE target_not_local(py, fns, path, targets, i, call_address, seen,
                          external_objc_logged(targets[i]))

\* Fault variant of is_direct_call: a call to an imported C function is
\* passed over before its destination is compared.
is_direct_call_internal(target, call_address) ==
    /\ target.destination_address = call_address
    /\ ~(target.is_external_c_call /\ ~target.is_msgSend_call)

\* can_execute_call, "is this a direct call?": whether the target ends the
\* search.
is_direct_call(target, call_address) == target.destination_address = call_address

\* can_execute_call, "for target in self.call_targets:" from target i on;
\* path holds the start addresses of the functions being explored, the
\* current one last.
targets_loop(py, fns, path, targets, i, call_address, seen) ==
    IF i > Len(targets)
    THEN Answer(FALSE, seen)
    ELSE IF is_direct_call(targets[i], call_address)
    THEN Answer(TRUE, seen)
    ELSE IF targets[i].is_external_c_call /\ ~targets[i].is_msgSend_call
    THEN targets_loop(py, fns, path, targets, i + 1, call_address, seen)
    ELSE target_not_external(py, fns, path, targets, i, call_address, seen,
                             is_local_branch(py, path[Len(path)],
                                             end_address_of(fns[path[Len(path)]]),
                                             targets[i]))

\* can_execute_call of the analyzer that get_function_analyzer makes for
\* start_address, called from the functions of path.  A call deeper than the
\* interpreter allows raises RecursionError.
can_execute_call(py, fns, start_address, call_address, path) ==
    IF Len(path) >= RecursionLimit
    THEN Failure("RecursionError", Entered(path, start_address))
    ELSE targets_loop(py, fns, Append(path, start_address),
                      call_targets(get_function_instructions(fns, start_address)),
                      1, call_address, Entered(path, start_address))

----------------------------------------------------------------------------
(* The analyzer at work on a binary whose functions call one another.      *)

\* Loads of x1 before a msgSend call.
SelrefLoads ==
    {Decoded("mov", <<Reg("x1"), Imm(SelrefLocal)>>),
     Decoded("mov", <<Reg("x1"), Imm(SelrefExternal)>>)}

\* Branch and link to an address.
Bl(destination) == Decoded("bl", <<Imm(destination)>>)

\* The instructions of the function at FuncA.
InstructionsA ==
    SelrefLoads \cup {Bl(MsgSendStub), Bl(NSLogStub), Bl(FuncA), Bl(FuncB), Ret}
\* The instructions of the function at FuncB.
InstructionsB ==
    {Decoded("mov", <<Reg("x1"), Imm(SelrefLocal)>>),
     Bl(MsgSendStub), Bl(NSLogStub), Bl(FuncA), Bl(FuncC)}
\* The instructions of the function at FuncC.
InstructionsC == {Bl(NSLogStub), Bl(FuncB), Ret}

\* The addresses asked about.
CallAddresses == {NSLogStub, FuncA, FuncB, FuncC}

AnalyzerInit ==
    /\ ParserInit
    /\ NewAnalyzer
    /\ \E body_a \in Bodies(InstructionsA, MaxInstructions),
          body_b \in Bodies(InstructionsB, MaxInstructions - 1),
          body_c \in Bodies(InstructionsC, 1) :
           functions = [a \in FunctionAddrs |->
                           CsInsns(a, CASE a = FuncA -> body_a
                                        [] a = FuncB -> body_b
                                        [] a = FuncC -> body_c)]

\* A read of the property call_targets.
ReadCallTargets ==
    /\ outcome' = [op |-> "call_targets",
                   cached |-> is_cached(__call_targets),
                   value |-> call_targets_read(__call_targets, _instructions)]
    /\ __call_targets' = [is_none |-> FALSE,
                          targets |-> call_targets_read(__call_targets, _instructions)]
    /\ scanned' = scanned + call_targets_scans(__call_targets, _instructions)
    /\ UNCHANGED <<interpreter, functions, block, macho>>
    /\ UNCHANGED parser_vars

\* can_execute_call(call_address), which reads call_targets first.
CanExecuteCall ==
    /\ \E call_address \in CallAddresses :
           outcome' = [op |-> "can_execute_call",
                       call_address |-> call_address,
                       result |-> targets_loop(
                                      interpreter, functions, <<FuncA>>,
                                      call_targets_read(__call_targets, _instructions),
                                      1, call_address, NothingSeen)]
    /\ __call_targets' = [is_none |-> FALSE,
                          targets |-> call_targets_read(__call_targets, _instructions)]
    /\ scanned' = scanned + call_targets_scans(__call_targets, _instructions)
    /\ UNCHANGED <<interpreter, functions, block, macho>>
    /\ UNCHANGED parser_vars

AnalyzerNext == ReadCallTargets \/ CanExecuteCall

SpecAnalyzer == AnalyzerInit /\ [][AnalyzerNext]_vars

----------------------------------------------------------------------------
(* Properties of the function analyzer.                                    *)

\* C12: once call_targets has been read, every later read returns the list
\* of the first read, in the same order, without running next_branch (and so
\* without resolving a selector) again; this holds also for a function with
\* no branches, whose list is empty.
C12_SecondReadIsCached ==
    [][~__call_targets.is_none =>
           /\ __call_targets' = __call_targets
           /\ scanned' = scanned
           /\ (outcome'.op = "call_targets" =>
                   outcome'.value = __call_targets.targets)]_vars

\* A second read of the call targets of a function with no branches.
C12_Witness ==
    /\ outcome.op = "call_targets"
    /\ outcome.cached
    /\ outcome.value = <<>>
    /\ __call_targets = [is_none |-> FALSE, targets |-> <<>>]
    /\ scanned = 1

\* The instructions of the function that are branches, in order.
BranchInstructions ==
    SelectSeq(_instructions, LAMBDA instr : instr.mnemonic \in branch_mnemonics)

\* C13: call_targets holds one record for each instruction whose mnemonic is
\* a branch mnemonic, in the order of the instructions, none twice and none
\* left out; the loop that builds it ends after one run of next_branch per
\* branch and one more.
C13_OneRecordPerBranch ==
    ~__call_targets.is_none =>
        /\ [i \in DOMAIN __call_targets.targets |->
               __call_targets.targets[i].raw_instr] = BranchInstructions
        /\ \A i, j \in DOMAIN __call_targets.targets :
               i < j => __call_targets.targets[i].address
                            < __call_targets.targets[j].address
        /\ scanned = Len(BranchInstructions) + 1

\* The call targets of a function with two branches and an instruction that
\* is no branch between them.
C13_Witness ==
    /\ outcome.op = "call_targets"
    /\ Len(outcome.value) = 2
    /\ Len(_instructions) = 3
    /\ _instructions[2].mnemonic \notin branch_mnemonics

\* The call targets of the analyzer in use, once read.
Targets == __call_targets.targets

\* The chain of assignments behind x1 at a call target of the function.
SelectorRegister(target) ==
    Chain(_instructions, "1", list_index(_instructions, target.raw_instr) + 1, {})

\* The call target is a msgSend call whose x1 holds the address selref.
Dispatches(target, selref) ==
    /\ target.is_msgSend_call
    /\ SelectorRegister(target).defined
    /\ ~SelectorRegister(target).sp
    /\ SelectorRegister(target).value = selref

\* C14: a msgSend call whose selector register holds a selref with an
\* implementation in the binary has that implementation as its destination,
\* not the stub of _objc_msgSend, and is not marked as an external Objective-C
\* call; one whose selref has no implementation is marked as an external
\* Objective-C call, has no destination, and can_execute_call never follows
\* it into a function.
C14_DispatchClassified ==
    ~__call_targets.is_none =>
        \A i \in DOMAIN Targets :
            /\ Dispatches(Targets[i], SelrefLocal) =>
                   /\ Targets[i].destination_address = imp_for_selref(SelrefLocal)
                   /\ Targets[i].destination_address # MsgSendStub
                   /\ ~Targets[i].is_external_objc_call
            /\ Dispatches(Targets[i], SelrefExternal) =>
                   /\ Targets[i].is_external_objc_call
                   /\ Targets[i].destination_address = None
                   /\ outcome.op = "can_execute_call" =>
                          Targets[i].address \notin outcome.result.seen.followed

\* A search that met a msgSend call of a selector without implementation,
\* and went on to follow a later call.
C14_Witness ==
    /\ outcome.op = "can_execute_call"
    /\ ~outcome.result.raised
    /\ outcome.result.seen.followed # {}
    /\ \E i \in DOMAIN Targets :
           /\ Dispatches(Targets[i], SelrefExternal)
           /\ Targets[i].is_external_objc_call

\* A msgSend call of the selector implemented at FuncB, followed into FuncB.
C14_WitnessLocal ==
    /\ outcome.op = "can_execute_call"
    /\ \E i \in DOMAIN Targets :
           /\ Dispatches(Targets[i], SelrefLocal)
           /\ Targets[i].destination_address = FuncB
           /\ Targets[i].address \in outcome.result.seen.followed

\* The call target is a msgSend call for which get_selref raises.
Unresolved(target) ==
    /\ target.is_msgSend_call
    /\ get_selref(_instructions, target.raw_instr).raised

\* What the caller of can_execute_call sees of a result.
Seen(result) == <<result.raised, result.error, result.value>>

\* The search of the function at FuncA for call_address, over targets.
SearchOver(targets, call_address) ==
    targets_loop(interpreter, functions, <<FuncA>>, targets, 1, call_address,
                 NothingSeen)

\* C15: a msgSend call whose selector register cannot be resolved is recorded
\* as an external Objective-C call with no selref and no destination, and
\* can_execute_call passes over it: it ends as the search of the other call
\* targets ends, with the boolean that search returns.
C15_UnresolvedIsSkipped ==
    ~__call_targets.is_none =>
        /\ \A i \in DOMAIN Targets :
               Unresolved(Targets[i]) =>
                   /\ Targets[i].is_external_objc_call
                   /\ Targets[i].selref = None
                   /\ Targets[i].destination_address = None
        /\ outcome.op = "can_execute_call" =>
               Seen(outcome.result)
                   = Seen(SearchOver(SelectSeq(Targets, LAMBDA t : ~Unresolved(t)),
                                     outcome.call_address))

\* C15, the record alone: the data-flow error stays inside next_branch, and
\* the call is recorded as an external Objective-C call with no selref and no
\* destination.
C15_UnresolvedIsRecordedExternal ==
    ~__call_targets.is_none =>
        \A i \in DOMAIN Targets :
            Unresolved(Targets[i]) =>
                /\ Targets[i].is_external_objc_call
                /\ Targets[i].selref = None
                /\ Targets[i].destination_address = None

\* The call targets of a function with a msgSend call whose x1 is never
\* loaded.
C15_Witness ==
    /\ outcome.op = "call_targets"
    /\ \E i \in DOMAIN outcome.value : Unresolved(outcome.value[i])

\* The call targets of the function at f.
TargetsOf(f) == call_targets(functions[f])
\* The destinations of a list of call targets.
Destinations(targets) == {targets[i].destination_address : i \in DOMAIN targets}

\* The call target of the function at f branches into that function.
IsLocalTo(f, target) ==
    /\ target.destination_address # None
    /\ functions[f][1].address <= target.destination_address
    /\ target.destination_address <= end_address_of(functions[f])
\* The call target calls an imported C function other than _objc_msgSend.
IsExternalNative(target) == target.is_external_c_call /\ ~target.is_msgSend_call
\* The call target of the function at f is neither local nor external.
IsFollowable(f, target) ==
    /\ ~IsLocalTo(f, target)
    /\ ~IsExternalNative(target)
    /\ ~target.is_external_objc_call

\* The functions the function at f calls through followable call targets.
Callees(f) ==
    {TargetsOf(f)[i].destination_address :
         i \in {j \in DOMAIN TargetsOf(f) : IsFollowable(f, TargetsOf(f)[j])}}

\* The functions reached from those of S by chains of at most n followable
\* calls.
RECURSIVE CalledFrom(_, _)
CalledFrom(S, n) ==
    IF n = 0 THEN S ELSE CalledFrom(S \cup UNION {Callees(f) : f \in S}, n - 1)

\* No function of the binary calls itself through a chain of followable
\* calls.
Acyclic ==
    \A f \in FunctionAddrs : f \notin CalledFrom(Callees(f), Cardinality(FunctionAddrs))

\* There is a chain FuncA = F0, .., Fn of followable calls whose last function
\* has a call target with destination call_address.
ChainTo(call_address) ==
    \E f \in CalledFrom({FuncA}, Cardinality(FunctionAddrs)) :
        call_address \in Destinations(TargetsOf(f))

\* C16: on an acyclic call graph can_execute_call(T) returns True when a
\* chain of followable calls leads from the function to one with a call
\* target whose destination is T, and False when there is none.
C16_Reachability ==
    outcome.op = "can_execute_call" /\ Acyclic =>
        /\ ~outcome.result.raised
        /\ outcome.result.value = ChainTo(outcome.call_address)

\* C16, for the searches that return: the boolean returned tells whether
\* there is such a chain; the others end with TypeError.
C16_ReachabilityWhenReturned ==
    outcome.op = "can_execute_call" /\ Acyclic =>
        \/ outcome.result.raised /\ outcome.result.error = "TypeError"
        \/ /\ ~outcome.result.raised
           /\ outcome.result.value = ChainTo(outcome.call_address)

\* A calls B, B calls T: True after one level of recursion.
C16_Witness ==
    /\ outcome.op = "can_execute_call"
    /\ Acyclic
    /\ outcome.result.value
    /\ outcome.call_address \notin Destinations(Targets)
    /\ Cardinality(outcome.result.seen.followed) = 1

\* C17, as stated: a local branch or a call of an imported C function whose
\* destination is T does not by itself make can_execute_call(T) return True;
\* so in a function all of whose call targets are of these two kinds it does
\* not return True.
C17_DirectMatchOnlyOnFollowable ==
    outcome.op = "can_execute_call" =>
        ((\A i \in DOMAIN Targets :
              IsLocalTo(FuncA, Targets[i]) \/ IsExternalNative(Targets[i]))
            => ~outcome.result.value)

\* C17: the destination of every call target the search comes to is compared
\* with T before the target is tested for being local or external; when the
\* search comes to a call target with destination T, a local branch or a call
\* of an imported C function included, can_execute_call(T) returns True.
C17_DirectMatchOnEveryTarget ==
    outcome.op = "can_execute_call" =>
        \A i \in DOMAIN Targets :
            (/\ Targets[i].destination_address = outcome.call_address
             /\ Seen(SearchOver(SubSeq(Targets, 1, i - 1), outcome.call_address))
                    = <<FALSE, NoError, FALSE>>)
                => Seen(outcome.result) = <<FALSE, NoError, TRUE>>

\* True for a function whose only call target with destination T is a call
\* of an imported C function, and which follows no call.
C17_Witness ==
    /\ outcome.op = "can_execute_call"
    /\ outcome.result.value
    /\ outcome.result.seen.followed = {}
    /\ \A i \in DOMAIN Targets :
           Targets[i].destination_address = outcome.call_address =>
               IsExternalNative(Targets[i])

\* True for a function whose only call target with destination T is a branch
\* into the function itself.
C17_WitnessLocal ==
    /\ outcome.op = "can_execute_call"
    /\ outcome.result.value
    /\ outcome.result.seen.followed = {}
    /\ \A i \in DOMAIN Targets :
           Targets[i].destination_address = outcome.call_address =>
               IsLocalTo(FuncA, Targets[i])

\* C18: can_execute_call(T) returns for every call graph, those in which a
\* function calls itself or two functions call each other included: the
\* recursion never exceeds the depth the interpreter allows, and the search
\* never enters a function it is already exploring.
C18_Terminates ==
    outcome.op = "can_execute_call" =>
        /\ outcome.result.error # "RecursionError"
        /\ ~outcome.result.seen.revisited

\* C18, on the call graphs without a cycle of followable calls, in which a
\* function may still branch to its own start address.
C18_TerminatesWithoutCycle ==
    outcome.op = "can_execute_call" /\ Acyclic =>
        /\ outcome.result.error # "RecursionError"
        /\ ~outcome.result.seen.revisited

\* A function that calls its own start address, and T not reachable: False.
C18_Witness ==
    /\ outcome.op = "can_execute_call"
    /\ FuncA \in Destinations(Targets)
    /\ outcome.call_address # FuncA
    /\ Seen(outcome.result) = <<FALSE, NoError, FALSE>>

----------------------------------------------------------------------------
(* Further properties of the parser.                                       *)

\* C22: a class-list entry whose class data does not resolve and whose
\* metaclass data does yields a class whose selectors are those of the
\* metaclass data's method list only, and whose ivar list is empty, whatever
\* the metaclass data's ivar pointer holds.
C22_MetaclassOnlyNoIvars ==
    [][(/\ pc = "metaclass"
        /\ ~Resolves(cur.objc_class.data)
        /\ Resolves(cur.objc_class.metaclass.data)
        /\ pc' = "classes")
       => /\ Len(parsed') = Len(parsed) + 1
          /\ parsed'[Len(parsed')].selectors
                 = SelectorsOf(cur.objc_class.metaclass.data.base_methods)
          /\ parsed'[Len(parsed')].ivars = <<>>]_vars

\* C22, with the ivars the code keeps: the class appended is the one parsed
\* from the metaclass data, with the selectors of its method list only and
\* with the name, the ivars and the protocols the metaclass data holds.
C22_MetaclassBecomesClass ==
    [][(/\ pc = "metaclass"
        /\ ~Resolves(cur.objc_class.data)
        /\ Resolves(cur.objc_class.metaclass.data)
        /\ pc' = "classes")
       => parsed' = Append(parsed,
              [cls |-> "ObjcClass", raw_struct |-> cur.objc_class,
               name |-> StringAt(cur.objc_class.metaclass.data.name),
               selectors |-> SelectorsOf(cur.objc_class.metaclass.data.base_methods),
               ivars |-> IvarsOf(cur.objc_class.metaclass.data.ivars),
               protocols |-> ProtocolsOf(cur.objc_class.metaclass.data.base_protocols)])]_vars

\* A class that came from metaclass data holding a method and an ivar.
C22_Witness ==
    \E i \in DOMAIN parsed :
      /\ parsed[i].cls = "ObjcClass"
      /\ ~Resolves(parsed[i].raw_struct.data)
      /\ Resolves(parsed[i].raw_struct.metaclass.data)
      /\ parsed[i].raw_struct.metaclass.data.ivars # <<>>
      /\ Len(parsed[i].selectors) = 1
      /\ Len(parsed[i].ivars) = 1

\* The selref map holds at key k a selector with a usable implementation.
Implemented(sel_map, k) ==
    dict_has(sel_map, k) /\ Truthy(dict_get(sel_map, k).implementation)

\* C25: once the selref map holds at a key a selector with a usable
\* implementation, it holds one at that key in every later state of the
\* construction: no later method entry with the same name pointer puts a
\* selector without implementation in its place.
C25_ImplementationNeverDowngraded ==
    [][\A k \in dict_keys(selref_ptr_to_selector_map) :
           Implemented(selref_ptr_to_selector_map, k)
               => Implemented(selref_ptr_to_selector_map', k)]_vars

\* C25, as far as the code goes: the key stays, and the selector at it keeps
\* its name and its selref; its implementation is that of the method entry
\* parsed last.
C25_EntryKeptUnderItsName ==
    [][\A k \in dict_keys(selref_ptr_to_selector_map) :
           Implemented(selref_ptr_to_selector_map, k)
               => /\ dict_has(selref_ptr_to_selector_map', k)
                  /\ dict_get(selref_ptr_to_selector_map', k).name
                         = dict_get(selref_ptr_to_selector_map, k).name
                  /\ dict_get(selref_ptr_to_selector_map', k).selref
                         = dict_get(selref_ptr_to_selector_map, k).selref]_vars

\* A class was parsed with a method implemented for a selref, and a method
\* entry parsed later gave the selref's key a selector without implementation.
C25_Witness ==
    \E i \in DOMAIN parsed :
        \E j \in DOMAIN parsed[i].selectors :
            /\ parsed[i].selectors[j].selref # NoSelref
            /\ Truthy(parsed[i].selectors[j].implementation)
            /\ dict_has(selref_ptr_to_selector_map,
                        parsed[i].selectors[j].selref.source_address)
            /\ ~Implemented(selref_ptr_to_selector_map,
                            parsed[i].selectors[j].selref.source_address)

\* selector_for_selref(selref_addr) would take its fallback branch: the
\* address is no key of the selref map, and a known selref has it as source
\* address.
FallbackTaken(selref_addr) ==
    /\ ~dict_has(selref_ptr_to_selector_map, selref_addr)
    /\ Len(selrefs_at(selector_literal_ptr_to_selref_map, selref_addr)) # 0

\* C26: the keys of the selref map are fixed by _parse_selrefs: no later step
\* adds or removes a key, and every selref stored in the literal map has its
\* source address as a key of the selref map.  So selector_for_selref never
\* takes its fallback branch, and returns none exactly for the addresses that
\* are not keys.
C26_KeysFixedBySelrefs ==
    /\ [](/\ \A i \in DOMAIN selector_literal_ptr_to_selref_map :
                dict_has(selref_ptr_to_selector_map,
                         selector_literal_ptr_to_selref_map[i].v.source_address)
          /\ \A a \in QueryAddrs :
                /\ ~FallbackTaken(a)
                /\ selector_for_selref(selref_ptr_to_selector_map,
                                       selector_literal_ptr_to_selref_map, a) = NoSelector
                     <=> ~dict_has(selref_ptr_to_selector_map, a)
          /\ ret.op = "selector_for_selref" =>
                (ret.value = NoSelector
                     <=> ~dict_has(selref_ptr_to_selector_map, ret.arg)))
    /\ [][pc # "selrefs" =>
              dict_keys(selref_ptr_to_selector_map')
                  = dict_keys(selref_ptr_to_selector_map)]_vars

\* A finished construction that replaced the value at a key of the selref
\* map, whose two-slot selref section left one slot without a key, and a
\* query for that slot.
C26_Witness ==
    /\ pc = "done"
    /\ ret.op = "selector_for_selref"
    /\ ret.value = NoSelector
    /\ \E k \in dict_keys(selref_ptr_to_selector_map) :
           dict_get(selref_ptr_to_selector_map, k).implementation # None
    /\ Len(selref_pointers) = 2

----------------------------------------------------------------------------
(* Further properties of the function analyzer.                            *)

\* The call targets of the function at f whose destination lies in the
\* function, from its start address to the address of its last instruction.
LocalTargets(f) ==
    {TargetsOf(f)[i] : i \in {j \in DOMAIN TargetsOf(f) : IsLocalTo(f, TargetsOf(f)[j])}}

\* C23: can_execute_call never follows a call target whose destination lies
\* in the closed range [start_address, end_address] of the function that
\* holds it, end_address being the address of the last instruction: not a
\* call of the function's own start address, and not a msgSend call rewritten
\* to an implementation inside the function.
C23_LocalBranchNotFollowed ==
    outcome.op = "can_execute_call" =>
        \A f \in FunctionAddrs :
            \A target \in LocalTargets(f) :
                target.address \notin outcome.result.seen.followed

\* A search that went from A into B and came in B to a msgSend call whose
\* destination was rewritten to B's own start address, and returned False.
C23_Witness ==
    /\ outcome.op = "can_execute_call"
    /\ Seen(outcome.result) = <<FALSE, NoError, FALSE>>
    /\ \E i \in DOMAIN Targets :
           /\ Targets[i].destination_address = FuncB
           /\ Targets[i].address \in outcome.result.seen.followed
    /\ \E target \in LocalTargets(FuncB) :
           /\ target.is_msgSend_call
           /\ target.destination_address = FuncB

\* A search of a function of one instruction, a call of its own address,
\* which is its start address and its end address.
C23_WitnessOwnStart ==
    /\ outcome.op = "can_execute_call"
    /\ Seen(outcome.result) = <<FALSE, NoError, FALSE>>
    /\ Len(_instructions) = 1
    /\ \E target \in LocalTargets(FuncA) : target.destination_address = FuncA

----------------------------------------------------------------------------
(* Further properties of the data flow.                                    *)

\* The locals of determine_register_contents each time the loop comes to its
\* test, from instruction i on down, the locals when the loop is left last.
RECURSIVE ScanStates(_, _, _)
ScanStates(instructions, i, st) ==
    IF i = 0 \/ Len(st.unknown_regs) = 0 THEN <<st>>
    ELSE <<st>> \o ScanStates(instructions, i - 1, data_flow_instr(st, instructions[i]))

\* The scan of the call whose outcome is recorded.
ScanAsked ==
    ScanStates(_instructions, Min(outcome.start_index + 1, Len(_instructions)),
               data_flow_start(outcome.desired_reg))

\* The instruction the scan reads at its step k.
ScanInstr(k) ==
    _instructions[Min(outcome.start_index + 1, Len(_instructions)) - (k - 1)]

\* Reading instr with the locals st runs a branch under "do we already know
\* the exact value of the source?".
KnownSourceCopied(st, instr) ==
    /\ Assigns(instr, _trimmed_reg_name(instr.operands[1].reg))
    /\ list_has(st.unknown_regs, _trimmed_reg_name(instr.operands[1].reg))
    /\ source_operand(instr).type \in {"REG", "MEM"}
    /\ dict_has(st.determined_values, _trimmed_reg_name(source_operand(instr).reg))

\* C27: at every step of the scan of determine_register_contents the list of
\* unknown registers holds at most one register, and the map of determined
\* values is empty as long as the list is not; so no step copies or adds
\* from a source register already determined, and the scan ends with the
\* first immediate it finds: it determines one value at most, and reads no
\* instruction after that.
C27_OneUnknownAtMost ==
    outcome.op = "determine_register_contents" =>
        /\ \A k \in DOMAIN ScanAsked :
               /\ Len(ScanAsked[k].unknown_regs) <= 1
               /\ Len(ScanAsked[k].unknown_regs) # 0
                      => ScanAsked[k].determined_values = <<>>
               /\ Len(ScanAsked[k].determined_values) <= 1
               /\ ScanAsked[k].determined_values # <<>> => k = Len(ScanAsked)
        /\ \A k \in 1..(Len(ScanAsked) - 1) :
               ~KnownSourceCopied(ScanAsked[k], ScanInstr(k))

\* A scan that read three instructions, went through two links and ended
\* at an immediate.
C27_Witness ==
    /\ outcome.op = "determine_register_contents"
    /\ Len(ScanAsked) = 4
    /\ Len(ScanAsked[4].needed_links) = 2
    /\ Len(ScanAsked[4].determined_values) = 1
    /\ ScanAsked[4].unknown_regs = <<>>
    /\ ~outcome.result.raised

----------------------------------------------------------------------------
(* Blocks: track_reg, and the ObjcBlockAnalyzer                            *)
(* (src/strongarm/objc_analyzer.py).                                       *)

\* What instr.reg_name(op.value.reg) may give for an operand that is no
\* register.  value is a union: its member reg then holds the low bits of
\* the immediate, and the name is that of whatever register has that number,
\* if one has: the name of a register of the function, of another register,
\* or none.
PunnedNames == {"x0", "wsp", NoString}

\* instr.reg_name(op.value.reg), pun being what it gives for an operand that
\* is no register.
reg_name(pun, op) == IF op.type = "REG" THEN op.reg ELSE pun

\* track_reg, a mov with two operands: operands[0] is dst and operands[1] is
\* src.
track_reg_mov(pun, regs_holding_value, instr) ==
    IF /\ list_has(regs_holding_value, reg_name(pun, instr.operands[2]))
       /\ ~list_has(regs_holding_value, reg_name(pun, instr.operands[1]))
    THEN Append(regs_holding_value, reg_name(pun, instr.operands[1]))
    ELSE IF /\ list_has(regs_holding_value, reg_name(pun, instr.operands[1]))
            /\ ~list_has(regs_holding_value, reg_name(pun, instr.operands[2]))
    THEN list_remove(regs_holding_value, reg_name(pun, instr.operands[1]))
    ELSE regs_holding_value

\* track_reg, "for instr in self._instructions:" from instruction i on.
RECURSIVE track_reg_loop(_, _, _, _)
track_reg_loop(pun, instructions, i, regs_holding_value) ==
    IF i > Len(instructions)
    THEN [raised |-> FALSE, error |-> NoError, value |-> regs_holding_value]
    ELSE IF instructions[i].mnemonic # "mov"
    THEN track_reg_loop(pun, instructions, i + 1, regs_holding_value)
    ELSE IF Len(instructions[i].operands) # 2
    THEN [raised |-> TRUE, error |-> "RuntimeError", value |-> <<>>]
    ELSE track_reg_loop(pun, instructions, i + 1,
                        track_reg_mov(pun, regs_holding_value, instructions[i]))

track_reg(pun, instructions, reg) == track_reg_loop(pun, instructions, 1, <<reg>>)

\* find_block_load: instr is "ldr <reg>, [<reg_containing_block>, #0x10]".
loads_invoke(instr, registers_containing_block) ==
    /\ instr.operands[2].type = "MEM"
    /\ list_has(registers_containing_block, instr.operands[2].reg)
    /\ instr.operands[2].disp = 16

\* find_block_load from instruction i on (index counts from 0): the register
\* that receives Block->invoke and the index of the load, or None when the
\* loop ends.
RECURSIVE find_block_load(_, _, _, _)
find_block_load(pun, instructions, registers_containing_block, i) ==
    IF i > Len(instructions)
    THEN [raised |-> FALSE, error |-> NoError, is_none |-> TRUE,
          load_reg |-> NoString, load_index |-> 0]
    ELSE IF instructions[i].mnemonic # "ldr"
    THEN find_block_load(pun, instructions, registers_containing_block, i + 1)
    ELSE IF Len(instructions[i].operands) # 2
    THEN [raised |-> TRUE, error |-> "RuntimeError", is_none |-> TRUE,
          load_reg |-> NoString, load_index |-> 0]
    ELSE IF loads_invoke(instructions[i], registers_containing_block)
    THEN [raised |-> FALSE, error |-> NoError, is_none |-> FALSE,
          load_reg |-> reg_name(pun, instructions[i].operands[1]),
          load_index |-> i - 1]
    ELSE find_block_load(pun, instructions, registers_containing_block, i + 1)

\* next_blr_to_reg: the positions (counted from 1) of the instructions from
\* start_index on that are a blr to reg.
blrs_to_reg(pun, instructions, reg, start_index) ==
    {i \in (start_index + 1)..Len(instructions) :
        /\ instructions[i].mnemonic = "blr"
        /\ reg_name(pun, instructions[i].operands[1]) = reg}

\* next_blr_to_reg: the first of them, or None.
next_blr_to_reg(pun, instructions, reg, start_index) ==
    IF blrs_to_reg(pun, instructions, reg, start_index) = {} THEN <<>>
    ELSE <<instructions[First(blrs_to_reg(pun, instructions, reg, start_index))]>>

\* ObjcBlockAnalyzer.__init__ raised.
BlockFailure(error) == [constructed |-> FALSE, error |-> error]

\* ObjcBlockAnalyzer.__init__, from find_block_invoke on: index(None) raises
\* ValueError when there is no blr to the register loaded.
block_invoke_found(instructions, registers_containing_block, load, invoke) ==
    IF invoke = <<>> THEN BlockFailure("ValueError")
    ELSE [constructed |-> TRUE, error |-> NoError,
          registers_containing_block |-> registers_containing_block,
          load_reg |-> load.load_reg, load_index |-> load.load_index,
          invoke_instr |-> invoke[1],
          invoke_idx |-> list_index(instructions, invoke[1])]

\* ObjcBlockAnalyzer.__init__, from "self.load_reg, self.load_index =" on:
\* unpacking None raises TypeError.
block_load_found(pun, instructions, registers_containing_block, load) ==
    IF load.raised THEN BlockFailure(load.error)
    ELSE IF load.is_none THEN BlockFailure("TypeError")
    ELSE block_invoke_found(instructions, registers_containing_block, load,
             next_blr_to_reg(pun, instructions, load.load_reg, load.load_index))

\* ObjcBlockAnalyzer.__init__, from find_block_load on, tracked being what
\* track_reg gave.
block_tracked(pun, instructions, tracked) ==
    IF tracked.raised THEN BlockFailure(tracked.error)
    ELSE block_load_found(pun, instructions, tracked.value,
                          find_block_load(pun, instructions, tracked.value, 1))

\* ObjcBlockAnalyzer.__init__: the fields of the analyzer, or the exception.
ObjcBlockAnalyzer(pun, instructions, initial_block_reg) ==
    block_tracked(pun, instructions, track_reg(pun, instructions, initial_block_reg))

\* What get_block_arg returns: an int, a register name (None when reg_name
\* finds no register), or None when the loop ends.
ArgImmediate(imm) == [kind |-> "imm", imm |-> imm, reg |-> NoString]
ArgRegister(reg) == [kind |-> "reg", imm |-> 0, reg |-> reg]
ArgNone == [kind |-> "None", imm |-> 0, reg |-> NoString]

\* get_block_arg, what is returned for the mov or movz that assigns the
\* register: "if instr.mnemonic == 'movz': return src.value.imm", else
\* "return instr.reg_name(src.value.reg)".
block_arg_source(pun, instr) ==
    IF instr.mnemonic = "movz"
    THEN ArgImmediate(instr.operands[2].imm)
    ELSE ArgRegister(reg_name(pun, instr.operands[2]))

\* get_block_arg, "for instr in self._instructions[invoke_index::-1]:" from
\* position i (counted from 1) on down.
RECURSIVE get_block_arg_loop(_, _, _, _)
get_block_arg_loop(pun, instructions, i, desired_register) ==
    IF i = 0 THEN ArgNone
    ELSE IF /\ instructions[i].mnemonic \in {"movz", "mov"}
            /\ reg_name(pun, instructions[i].operands[1]) = desired_register
    THEN block_arg_source(pun, instructions[i])
    ELSE get_block_arg_loop(pun, instructions, i - 1, desired_register)

\* u'x{}'.format(arg_index)
ArgRegisterName(arg_index) ==
    CASE arg_index = 0 -> "x0" [] arg_index = 1 -> "x1" [] OTHER -> "x2"

get_block_arg(pun, instructions, invoke_instr, arg_index) ==
    get_block_arg_loop(pun, instructions, list_index(instructions, invoke_instr) + 1,
                       ArgRegisterName(arg_index))

----------------------------------------------------------------------------
(* The block analyzer at work on a function that is handed a block in x0.  *)

\* A function that invokes a block has at most this many instructions.
MaxBlockInstructions == 4

\* The instructions of such a function: moves between registers, through
\* the 32-bit name of a register too, assignments of the second argument, the
\* load of Block->invoke and the call of the register loaded.
BlockInstructions ==
    {Decoded("mov", <<Reg("x1"), Reg("x0")>>),
     Decoded("mov", <<Reg("x0"), Reg("x1")>>),
     Decoded("mov", <<Reg("x0"), Reg("x9")>>),
     Decoded("mov", <<Reg("w0"), Reg("w9")>>),
     Decoded("mov", <<Reg("x1"), Reg("x9")>>),
     Decoded("mov", <<Reg("x1"), Imm(5)>>),
     Decoded("movz", <<Reg("x1"), Imm(5)>>),
     Decoded("ldr", <<Reg("x8"), Mem("x0", 16)>>),
     Decoded("blr", <<Reg("x8")>>)}

\* The register that holds the block when the function is entered.
InitialBlockReg == "x0"
\* The positions of the arguments asked about.
ArgIndexes == {0, 1}

BlockInit ==
    /\ ParserInit
    /\ NewAnalyzer
    /\ \E body \in Bodies(BlockInstructions, MaxBlockInstructions) :
           functions = [a \in FunctionAddrs |->
                           CsInsns(a, IF a = FuncA THEN body ELSE <<Ret>>)]

\* track_reg(reg) on the analyzer of the function.
TrackReg ==
    /\ \E pun \in PunnedNames :
           outcome' = [op |-> "track_reg", reg |-> InitialBlockReg,
                       result |-> track_reg(pun, _instructions, InitialBlockReg)]
    /\ UNCHANGED <<interpreter, functions, __call_targets, scanned, block, macho>>
    /\ UNCHANGED parser_vars

\* ObjcBlockAnalyzer(binary, instructions, initial_block_reg).
NewObjcBlockAnalyzer ==
    /\ \E pun \in PunnedNames :
           /\ block' = ObjcBlockAnalyzer(pun, _instructions, InitialBlockReg)
           /\ outcome' = [op |-> "ObjcBlockAnalyzer",
                          error |-> ObjcBlockAnalyzer(pun, _instructions,
                                                     InitialBlockReg).error]
    /\ UNCHANGED <<interpreter, functions, __call_targets, scanned, macho>>
    /\ UNCHANGED parser_vars

\* get_block_arg(arg_index) on the block analyzer made.
GetBlockArg ==
    /\ block.constructed
    /\ \E pun \in PunnedNames, arg_index \in ArgIndexes :
           outcome' = [op |-> "get_block_arg", arg_index |-> arg_index,
                       result |-> get_block_arg(pun, _instructions,
                                                block.invoke_instr, arg_index)]
    /\ UNCHANGED <<interpreter, functions, __call_targets, scanned, block, macho>>
    /\ UNCHANGED parser_vars

BlockNext == TrackReg \/ NewObjcBlockAnalyzer \/ GetBlockArg

SpecBlock == BlockInit /\ [][BlockNext]_vars

----------------------------------------------------------------------------
(* Properties of the block analyzer.                                       *)

\* The positions, from the invocation site back, of the mov and movz
\* instructions that assign the argument register asked about.
ArgAssignments ==
    {i \in 1..(block.invoke_idx + 1) :
        /\ _instructions[i].mnemonic \in {"mov", "movz"}
        /\ _instructions[i].operands[1].type = "REG"
        /\ _instructions[i].operands[1].reg = ArgRegisterName(outcome.arg_index)}

\* The source operand of the most recent of them.
ArgSource == _instructions[Last(ArgAssignments)].operands[2]

\* C21: for the most recent assignment to the argument register before the
\* invocation site, get_block_arg returns the immediate when the value
\* assigned is an immediate, and the name of the source register when it
\* comes from a register, for a mov as for a movz.
C21_ImmediateOrRegister ==
    (outcome.op = "get_block_arg" /\ ArgAssignments # {}) =>
        /\ ArgSource.type = "IMM" => outcome.result = ArgImmediate(ArgSource.imm)
        /\ ArgSource.type = "REG" => outcome.result = ArgRegister(ArgSource.reg)

\* C21, for the assignments the code tells apart by their mnemonic: the
\* immediate of a movz, the source register of a mov from a register.  For a
\* mov of an immediate it returns what reg_name makes of the immediate, never
\* the immediate.
C21_ImmediateOfMovzOnly ==
    (outcome.op = "get_block_arg" /\ ArgAssignments # {}) =>
        /\ _instructions[Last(ArgAssignments)].mnemonic = "movz"
               => outcome.result = ArgImmediate(ArgSource.imm)
        /\ ArgSource.type = "REG" => outcome.result = ArgRegister(ArgSource.reg)
        /\ (/\ _instructions[Last(ArgAssignments)].mnemonic = "mov"
            /\ ArgSource.type = "IMM") => outcome.result.kind = "reg"

\* The second argument of a block invoked by the fourth instruction, assigned
\* from a register and then by a movz: the immediate of the movz.
C21_Witness ==
    /\ outcome.op = "get_block_arg"
    /\ outcome.arg_index = 1
    /\ block.invoke_idx = 3
    /\ Cardinality(ArgAssignments) = 2
    /\ _instructions[Last(ArgAssignments)].mnemonic = "movz"
    /\ outcome.result = ArgImmediate(5)


\* The 64-bit register that a register name is a view of.
XName(name) ==
    CASE name = "w0" -> "x0" [] name = "w1" -> "x1" [] name = "w8" -> "x8"
      [] name = "w9" -> "x9" [] OTHER -> name
\* The name is that of a 64-bit register.
Is64(name) == XName(name) = name

\* The 64-bit registers that hold the value after a mov, holders being those
\* that held it before: a mov between 64-bit registers copies the whole
\* source, a mov between 32-bit names writes the low half of the source to
\* the destination register and clears its high half.
HoldersAfterMov(holders, instr) ==
    IF /\ Is64(instr.operands[1].reg)
       /\ instr.operands[2].reg \in holders
    THEN holders \cup {instr.operands[1].reg}
    ELSE holders \ {XName(instr.operands[1].reg)}

\* The registers that hold the value after instructions i, i + 1, ...
RECURSIVE HoldersAfter(_, _, _)
HoldersAfter(instructions, i, holders) ==
    IF i > Len(instructions) THEN holders
    ELSE HoldersAfter(instructions, i + 1, HoldersAfterMov(holders, instructions[i]))

\* Every instruction is a mov of a register to a register.
OnlyRegisterMoves(instructions) ==
    \A i \in DOMAIN instructions :
        /\ instructions[i].mnemonic = "mov"
        /\ Len(instructions[i].operands) = 2
        /\ instructions[i].operands[1].type = "REG"
        /\ instructions[i].operands[2].type = "REG"

\* Every register named is named as a 64-bit register.
Only64BitNames(instructions) ==
    \A i \in DOMAIN instructions :
        \A j \in DOMAIN instructions[i].operands :
            instructions[i].operands[j].type = "REG"
                => Is64(instructions[i].operands[j].reg)

\* The elements of a list.
Elements(l) == {l[i] : i \in DOMAIN l}

\* C24: on a function whose registers are written only by mov of a register
\* to a register, track_reg(r) returns exactly the registers that hold a
\* copy of the value r held at first when the last instruction is done, none
\* of them twice.
C24_TrackRegExact ==
    (outcome.op = "track_reg" /\ OnlyRegisterMoves(_instructions)) =>
        /\ ~outcome.result.raised
        /\ Elements(outcome.result.value) = HoldersAfter(_instructions, 1, {outcome.reg})
        /\ Cardinality(Elements(outcome.result.value)) = Len(outcome.result.value)

\* C24, on the functions that name every register as a 64-bit register.
C24_TrackRegExact64 ==
    (/\ outcome.op = "track_reg"
     /\ OnlyRegisterMoves(_instructions)
     /\ Only64BitNames(_instructions)) =>
        /\ ~outcome.result.raised
        /\ Elements(outcome.result.value) = HoldersAfter(_instructions, 1, {outcome.reg})
        /\ Cardinality(Elements(outcome.result.value)) = Len(outcome.result.value)

\* x0 copied to x1, x0 overwritten from x9, x0 copied back from x1: x1, x0.
C24_Witness ==
    /\ outcome.op = "track_reg"
    /\ OnlyRegisterMoves(_instructions)
    /\ Only64BitNames(_instructions)
    /\ Len(_instructions) = 3
    /\ outcome.result.value = <<"x1", "x0">>

----------------------------------------------------------------------------
(* The Mach-O parser (src/strongarm/macho_parse.py): the load commands.    *)

\* The header's ncmds is at most this.
MaxLoadCommands == 3

\* sizeof(MachoHeader64)
HeaderSize == 32

\* The size a load command of each kind gives as its cmdsize; a 64-bit
\* segment command is followed by its nsects section structs.
CmdSize(cmd, nsects) ==
    CASE cmd = "LC_SEGMENT" -> 56
      [] cmd = "LC_SYMTAB" -> 24
      [] cmd = "LC_DYSYMTAB" -> 80
      [] cmd = "LC_ENCRYPTION_INFO_64" -> 24
      [] cmd = "LC_SEGMENT_64" -> 72 + 80 * nsects
      [] OTHER -> 24

\* A load command as it lies in the file.
LoadCommand(cmd, segname, sectnames) ==
    [cmd |-> cmd, cmdsize |-> CmdSize(cmd, Len(sectnames)),
     segname |-> segname, sectnames |-> sectnames]

\* The load commands of the files explored: one command of each kind the
\* parser tells apart, one it does not (LC_UUID), and 64-bit segments with
\* and without a section.
LoadCommands ==
    {LoadCommand(cmd, "", <<>>) :
        cmd \in {"LC_SEGMENT", "LC_SYMTAB", "LC_DYSYMTAB",
                 "LC_ENCRYPTION_INFO_64", "LC_UUID"}}
    \cup {LoadCommand("LC_SEGMENT_64", "__TEXT", <<"__text">>),
          LoadCommand("LC_SEGMENT_64", "__DATA", <<>>)}

\* The file offset of the k-th load command of the file.
RECURSIVE OffsetOf(_, _)
OffsetOf(file, k) ==
    IF k = 1 THEN HeaderSize ELSE OffsetOf(file, k - 1) + file[k - 1].cmdsize

\* get_bytes(offset, ..) and from_buffer: the load command that starts at
\* offset.
CommandAt(file, offset) ==
    file[CHOOSE k \in DOMAIN file : OffsetOf(file, k) = offset]

\* parse_sections: self.sections[section.sectname] = section, for each of
\* the segment's sections from section i on.
RECURSIVE parse_sections(_, _, _)
parse_sections(sections, segment, i) ==
    IF i > Len(segment.sectnames) THEN sections
    ELSE parse_sections(dict_set(sections, segment.sectnames[i],
                                 [sectname |-> segment.sectnames[i],
                                  segname |-> segment.segname]),
                        segment, i + 1)

\* parse_segment_commands, the if .. elif chain: the fields after a load
\* command that is no 32-bit segment, read at offset.
command_recorded(st, load_command, offset) ==
    CASE load_command.cmd = "LC_SYMTAB" ->
           [st EXCEPT !.symtab = <<[offset |-> offset, cmd |-> load_command.cmd]>>]
      [] load_command.cmd = "LC_DYSYMTAB" ->
           [st EXCEPT !.dysymtab = <<[offset |-> offset, cmd |-> load_command.cmd]>>]
      [] load_command.cmd = "LC_ENCRYPTION_INFO_64" ->
           [st EXCEPT !.encryption_info =
                          <<[offset |-> offset, cmd |-> load_command.cmd]>>]
      [] load_command.cmd = "LC_SEGMENT_64" ->
           [st EXCEPT !.segments = dict_set(@, load_command.segname,
                                            [offset |-> offset,
                                             segname |-> load_command.segname]),
                      !.sections = parse_sections(@, load_command, 1)]
      [] OTHER -> st

\* parse_segment_commands, the body of the loop for one load command: a
\* 32-bit segment command ends the iteration at its `continue`, before
\* "offset += load_command.cmdsize".
load_command_parsed(st, load_command) ==
    IF load_command.cmd = "LC_SEGMENT"
    THEN [st EXCEPT !.i = @ + 1, !.reads = Append(@, st.offset)]
    ELSE [command_recorded(st, load_command, st.offset)
             EXCEPT !.i = @ + 1, !.reads = Append(@, st.offset),
                    !.offset = @ + load_command.cmdsize]

\* MachoParser.__init__ and parse_header, up to the loop of
\* parse_segment_commands: i counts the iterations done, reads lists the
\* offsets at which a load command was read.
MachoParser(file) ==
    [constructed |-> TRUE, file |-> file, _num_commands |-> Len(file),
     load_commands_offset |-> HeaderSize, offset |-> HeaderSize, i |-> 0,
     symtab |-> <<>>, dysymtab |-> <<>>, encryption_info |-> <<>>,
     segments |-> <<>>, sections |-> <<>>, reads |-> <<>>]

\* A 64-bit Mach-O file with up to MaxLoadCommands load commands is opened.
MachoInit ==
    /\ ParserInit
    /\ interpreter = 3
    /\ functions = <<>>
    /\ __call_targets = [is_none |-> TRUE, targets |-> <<>>]
    /\ scanned = 0
    /\ outcome = [op |-> "none"]
    /\ block = NoBlock
    /\ \E file \in UNION {[1..n -> LoadCommands] : n \in 0..MaxLoadCommands} :
           macho = MachoParser(file)

\* One iteration of "for i in range(self._num_commands):".
ParseLoadCommand ==
    /\ macho.constructed
    /\ macho.i < macho._num_commands
    /\ macho' = load_command_parsed(macho, CommandAt(macho.file, macho.offset))
    /\ UNCHANGED <<interpreter, functions, __call_targets, scanned, outcome, block>>
    /\ UNCHANGED parser_vars

MachoNext == ParseLoadCommand

SpecMacho == MachoInit /\ [][MachoNext]_vars

----------------------------------------------------------------------------
(* Properties of the Mach-O parser.                                        *)

\* The positions among the first n load commands of those of kind cmd.
CommandsOfKind(cmd, n) == {k \in 1..n : macho.file[k].cmd = cmd}

\* What a field holds when the commands of kind cmd among the first n have
\* been recorded: the last of them, or None.
LastRecorded(cmd, n) ==
    IF CommandsOfKind(cmd, n) = {} THEN <<>>
    ELSE <<[offset |-> OffsetOf(macho.file, Last(CommandsOfKind(cmd, n))),
            cmd |-> cmd]>>

\* The fields hold the commands recorded among the first n of the file.
RecordedUpTo(n) ==
    /\ macho.symtab = LastRecorded("LC_SYMTAB", n)
    /\ macho.dysymtab = LastRecorded("LC_DYSYMTAB", n)
    /\ macho.encryption_info = LastRecorded("LC_ENCRYPTION_INFO_64", n)
    /\ dict_keys(macho.segments)
           = {macho.file[k].segname : k \in CommandsOfKind("LC_SEGMENT_64", n)}

\* C28: after i iterations parse_segment_commands has read the first i load
\* commands of the file, each once and in order, having advanced by cmdsize
\* after each, of whatever kind; the symtab, dysymtab, encryption-info and
\* 64-bit segment commands among them are recorded, also those that come
\* after a 32-bit segment command.
C28_EveryCommandVisitedOnce ==
    macho.constructed =>
        /\ macho.reads = [k \in 1..macho.i |-> OffsetOf(macho.file, k)]
        /\ RecordedUpTo(macho.i)

\* The number of load commands the loop gets to in n iterations: it stays
\* at the first 32-bit segment command.
Visited(n) ==
    IF CommandsOfKind("LC_SEGMENT", n) = {} THEN n
    ELSE First(CommandsOfKind("LC_SEGMENT", n))

\* C28, up to the first 32-bit segment command: the commands before it are
\* read once each and recorded; every later iteration reads that command
\* again, and nothing after it is read or recorded.
C28_VisitedOnceUpToSegment ==
    macho.constructed =>
        /\ macho.reads = [k \in 1..macho.i |->
                             OffsetOf(macho.file, Min(k, Visited(macho.i)))]
        /\ RecordedUpTo(Visited(macho.i))

\* A finished parse of a file with a symtab command, a 64-bit segment with
\* a section and a dysymtab command.
C28_Witness ==
    /\ macho.constructed
    /\ macho.i = 3
    /\ macho._num_commands = 3
    /\ macho.symtab # <<>>
    /\ macho.dysymtab # <<>>
    /\ dict_has(macho.sections, "__text")
    /\ macho.offset = HeaderSize + 24 + 152 + 80

====
